---- MODULE Spec2Model ----
(***************************************************************************)
(* The chain controller of libraries/chain/chain_controller.cpp as a state *)
(* machine.  One action per public entry point (push_block,                *)
(* push_transaction, generate_block, pop_block, clear_pending, replay and  *)
(* the constructor); the private methods they call are operators on a      *)
(* record of the controller's members.                                     *)
(*                                                                         *)
(* The fork database, the versioned store (chainbase) and the pending      *)
(* cycle scheduler are collaborators whose code is not part of the         *)
(* translated sources; they are modelled from sections 4.B, 4.C and 4.F of *)
(* the specification.                                                      *)
(*                                                                         *)
(* Abstractions.  A block id is the block itself (the hash of a header is  *)
(* taken to be injective), so `previous' holds the parent block.  A        *)
(* timestamp is a slot number counted from genesis.  The Merkle fields of  *)
(* a block are reduced to `fault': which of the block's commitments, if    *)
(* any, does not match what the controller recomputes.  The effect of a    *)
(* transaction's actions is reduced to the bandwidth bookkeeping that      *)
(* _apply_transaction itself performs.                                     *)
(***************************************************************************)
EXTENDS Integers, Sequences, FiniteSets, TLC

(***************************************************************************)
(* Bounds of the model                                                     *)
(***************************************************************************)
ProducerCount == 2
ProducerRepetitions == 1
MaxGap == 2
\* the number of operations the environment performs on the controller
MaxOps == 4
\* the number of transactions users push into one pending block
MaxPendingTrx == 2
\* update_last_irreversible_block on its own: the most active producers and
\* the highest last_confirmed_block_num it is tried on
LibProducers == 4
MaxConfirmed == 2
\* the threads that call the controller and the calls they make in all
ThreadCount == 2
MaxThreadCalls == 3
\* the actions of a transaction whose authorization is checked, the
\* authorizations an action declares and the keys that signed
\* the entries of pending_active_producers and the block numbers they and
\* the last irreversible block take
MaxPendingSchedules == 3
MaxActivationBlock == 4
\* the largest block number a checkpoint is added for
MaxCheckpointNum == 3
\* the receipts of a shard and the shards of a cycle in an applied block
MaxReceipts == 2
MaxShards == 2
MaxActions == 2
MaxAuths == 2
MaxKeys == 2

(***************************************************************************)
(* Program constants                                                       *)
(***************************************************************************)
SummaryRingSize == 65536
\* chain_configuration.max_transaction_lifetime of the genesis configuration
MaxTransactionLifetime == 2
Percent100 == 100
IrreversibleThresholdPercent == 66

BlocksPerRound == ProducerCount * ProducerRepetitions

ProducerNames == <<"pa", "pb", "pc", "pd", "pe">>
Producers == {ProducerNames[i] : i \in 1..ProducerCount}
Accounts == {"alice", "bob"}

\* block_id_type(): the all-zero id, head_block_id of a chain without blocks
NullId == [num |-> 0]

Last(seq) == seq[Len(seq)]
Front(seq) == SubSeq(seq, 1, Len(seq) - 1)
Reverse(seq) == [i \in 1..Len(seq) |-> seq[Len(seq) + 1 - i]]
Range(seq) == {seq[i] : i \in 1..Len(seq)}

is_start_of_round(block_num) == (block_num % BlocksPerRound) = 0

(***************************************************************************)
(* Skip flags (a record of the bits the controller tests)                  *)
(***************************************************************************)
NoSkip ==
  [skip_fork_db |-> FALSE, skip_producer_signature |-> FALSE,
   skip_producer_schedule_check |-> FALSE,
   skip_transaction_dupe_check |-> FALSE, skip_tapos_check |-> FALSE]

SkipAll ==
  [skip_fork_db |-> TRUE, skip_producer_signature |-> TRUE,
   skip_producer_schedule_check |-> TRUE,
   skip_transaction_dupe_check |-> TRUE, skip_tapos_check |-> TRUE]

ReplaySkip ==
  [skip_fork_db |-> FALSE, skip_producer_signature |-> TRUE,
   skip_producer_schedule_check |-> TRUE,
   skip_transaction_dupe_check |-> TRUE, skip_tapos_check |-> TRUE]

SkipChecks ==
  [skip_fork_db |-> FALSE, skip_producer_signature |-> TRUE,
   skip_producer_schedule_check |-> TRUE,
   skip_transaction_dupe_check |-> FALSE, skip_tapos_check |-> FALSE]

\* the flag combinations the callers of the model use
SkipChoices == {NoSkip, SkipChecks, SkipAll}

(***************************************************************************)
(* Genesis state of the store (_initialize_chain)                          *)
(***************************************************************************)
GenesisSchedule ==
  [version |-> 0, producers |-> [i \in 1..ProducerCount |-> ProducerNames[i]]]

\* (account, scope, action) -> required permission; the action "" is the
\* contract-wide default
PermissionLinks ==
  {[account |-> "alice", code |-> "currency", message_type |-> "transfer",
    required_permission |-> "publish"],
   [account |-> "alice", code |-> "exchange", message_type |-> "",
    required_permission |-> "owner"]}

GenesisDb ==
  [head_block_number |-> 0,
   head_block_id |-> NullId,
   time |-> 0,
   current_producer |-> "",
   current_absolute_slot |-> 0,
   last_irreversible_block_num |-> 0,
   producers |-> [p \in Producers |->
                    [last_confirmed_block_num |-> 0, last_aslot |-> 0,
                     total_missed |-> 0]],
   producers_by_vote |-> [i \in 1..ProducerCount |-> ProducerNames[i]],
   active_producers |-> GenesisSchedule,
   pending_active_producers |-> <<>>,
   block_summary |-> [i \in 0..MaxOps |-> NullId],
   block_summary_objects |-> SummaryRingSize,
   transactions |-> {},
   permission_links |-> PermissionLinks,
   bandwidth |-> [a \in Accounts |-> 0]]

(***************************************************************************)
(* Versioned store (specification 4.C).  `undo' is the stack of open or    *)
(* pushed sessions, each holding the store contents at its start; the      *)
(* session at index i has revision  revision - Len(undo) + i.              *)
(***************************************************************************)
start_undo_session(s) ==
  [s EXCEPT !.undo = Append(@, s.db), !.revision = @ + 1]

\* undo(): rewinds the last session; nothing to rewind when none is kept
undo(s) ==
  IF s.undo = <<>> THEN s
  ELSE [s EXCEPT !.db = Last(s.undo), !.undo = Front(@), !.revision = @ - 1]

\* squash(): folds the last session into its parent, no revision is created
squash(s) ==
  IF s.undo = <<>> THEN s
  ELSE [s EXCEPT !.undo = Front(@), !.revision = @ - 1]

\* commit(revision): discards the undo records of sessions up to `revision'
commit(s, rev) ==
  LET base == s.revision - Len(s.undo)
      keep == {i \in 1..Len(s.undo) : base + i > rev}
      n    == Cardinality(keep)
  IN [s EXCEPT !.undo = SubSeq(s.undo, Len(s.undo) - n + 1, Len(s.undo))]

\* undo_all(): rewinds every session down to the last commit
undo_all(s) ==
  IF s.undo = <<>> THEN s
  ELSE [s EXCEPT !.db = s.undo[1], !.undo = <<>>,
                 !.revision = @ - Len(s.undo)]

set_revision(s, rev) == [s EXCEPT !.revision = rev]

(***************************************************************************)
(* Fork database (specification 4.B).  An item is a block with the weak    *)
(* reference to its parent that it got when it was inserted.  index: the   *)
(* items held; head: the item last made head (it stays alive while it is   *)
(* head, also when it is erased from the index).                           *)
(***************************************************************************)
NullItem == [data |-> NullId, prev |-> NullId]

EmptyForkDb == [index |-> {}, head |-> NullItem]

ForkIds(f) == {it.data : it \in f.index}

is_known_block(f, id) == id \in ForkIds(f)

fetch_item(f, id) ==
  IF is_known_block(f, id) THEN CHOOSE it \in f.index : it.data = id
  ELSE NullItem

\* prev.lock(): the parent item while something still holds it
Lock(f, it) ==
  IF it.prev = NullId THEN NullItem
  ELSE IF is_known_block(f, it.prev) THEN fetch_item(f, it.prev)
  ELSE IF f.head.data = it.prev THEN f.head
  ELSE NullItem

\* push_block: inserts, links to the parent if known, and moves the head when
\* the new item is higher than it; the caller gets the head back
fork_push_block(f, b) ==
  LET link == IF f.head # NullItem /\ is_known_block(f, b.previous)
              THEN b.previous ELSE NullId
      item == [data |-> b, prev |-> link]
      idx  == IF is_known_block(f, b) THEN f.index ELSE f.index \cup {item}
  IN [index |-> idx,
      head  |-> IF f.head = NullItem \/ b.num > f.head.data.num
                THEN item ELSE f.head]

fork_remove(f, id) == [f EXCEPT !.index = {it \in @ : it.data # id}]

fork_set_head(f, it) == [f EXCEPT !.head = it]

\* pop_block: removes the current head; its parent, when the database
\* still holds it, becomes the head
fork_pop_block(f) ==
  IF f.head = NullItem THEN f
  ELSE [f EXCEPT !.index = @ \ {f.head}, !.head = Lock(f, f.head)]

\* set_max_size(n): drops the items older than head_num - n
fork_set_max_size(f, n) ==
  IF f.head = NullItem THEN f
  ELSE [f EXCEPT !.index = {it \in @ : it.data.num >= f.head.data.num - n}]

\* start_block: the fork database restarts from one block
fork_start_block(b) ==
  LET item == [data |-> b, prev |-> NullId]
  IN [index |-> {item}, head |-> item]

\* the items from `it' towards the root, following the parent references
RECURSIVE Ancestry(_, _)
Ancestry(f, it) ==
  IF it = NullItem THEN <<>> ELSE <<it>> \o Ancestry(f, Lock(f, it))

\* fetch_branch_from(first, second): both branches tip-to-root, each ending
\* with the child of the common ancestor; ok = FALSE when there is none
fetch_branch_from(f, first, second) ==
  LET a  == Ancestry(f, fetch_item(f, first))
      b  == Ancestry(f, fetch_item(f, second))
      d  == first.num - second.num
      i0 == IF d > 0 THEN d + 1 ELSE 1
      j0 == IF d < 0 THEN 1 - d ELSE 1
      ks == {k \in 0..Len(a) :
               /\ i0 + k <= Len(a) /\ j0 + k <= Len(b)
               /\ a[i0 + k].data.previous = b[j0 + k].data.previous}
      k  == CHOOSE k \in ks : \A m \in ks : k <= m
  IN IF a = <<>> \/ b = <<>> \/ ks = {}
     THEN [ok |-> FALSE, first |-> <<>>, second |-> <<>>]
     ELSE [ok |-> TRUE, first |-> SubSeq(a, 1, i0 + k),
           second |-> SubSeq(b, 1, j0 + k)]

(***************************************************************************)
(* Controller state.  A record of the members of chain_controller, passed  *)
(* through the operators below; `exc' is the exception in flight ("none"   *)
(* when there is none, "hang" when the method does not return, "abort"     *)
(* when the process ends).                                                 *)
(***************************************************************************)
Raise(s, kind) == IF s.exc = "none" THEN [s EXCEPT !.exc = kind] ELSE s

\* sequencing: the next statement runs only when the previous one returned
Bind(s, F(_)) == IF s.exc = "none" THEN F(s) ELSE s

Check(s, cond, kind) == IF cond THEN s ELSE Raise(s, kind)

head_block_time(s) == s.db.time
head_block_num(s) == s.db.head_block_number
head_block_id(s) == s.db.head_block_id
last_irreversible_block_num(s) == s.db.last_irreversible_block_num

(***************************************************************************)
(* Scheduler                                                               *)
(***************************************************************************)
get_slot_time(s, slot_num) ==
  IF slot_num = 0 THEN 0 ELSE head_block_time(s) + slot_num

get_slot_at_time(s, when) ==
  LET first_slot_time == get_slot_time(s, 1)
  IN IF when < first_slot_time THEN 0 ELSE when - first_slot_time + 1

get_scheduled_producer(s, slot_num) ==
  LET current_aslot == s.db.current_absolute_slot + slot_num
      index == (current_aslot % BlocksPerRound) \div ProducerRepetitions
  IN s.db.active_producers.producers[index + 1]

_head_producer_schedule(s) ==
  IF s.db.pending_active_producers # <<>>
  THEN Last(s.db.pending_active_producers).second
  ELSE s.db.active_producers

\* the producers are taken in vote order; every producer of the model has a
\* signing key, so none is skipped
_calculate_producer_schedule(s) ==
  LET hps   == _head_producer_schedule(s)
      sched == [version |-> hps.version, producers |-> s.db.producers_by_vote]
  IN IF hps # sched THEN [sched EXCEPT !.version = @ + 1] ELSE sched

(***************************************************************************)
(* Block log and block lookup                                              *)
(***************************************************************************)
read_block_by_num(s, num) ==
  IF num >= 1 /\ num <= Len(s.log) THEN s.log[num] ELSE NullId

RECURSIVE WalkDown(_, _, _)
WalkDown(f, it, num) ==
  IF it # NullItem /\ it.data.num > num THEN WalkDown(f, Lock(f, it), num)
  ELSE it

\* NullId stands for the empty optional
fetch_block_by_number(s, num) ==
  IF read_block_by_num(s, num) # NullId THEN read_block_by_num(s, num)
  ELSE IF num <= head_block_num(s)
       THEN LET it == WalkDown(s.fork, s.fork.head, num)
            IN IF it # NullItem /\ it.data.num = num THEN it.data ELSE NullId
       ELSE NullId

fetch_block_by_id(s, id) ==
  IF is_known_block(s.fork, id) THEN id
  ELSE IF id \in Range(s.log) THEN id ELSE NullId

(***************************************************************************)
(* Merkle commitments.  A root is the committed content with a salt; the   *)
(* roots the controller computes have salt 0, so two roots are equal       *)
(* exactly when they commit to the same content.  block_mroot_ok says      *)
(* whether the block's block_mroot equals the root of the ids up to its    *)
(* parent, which is what the store holds whenever the block is applied.    *)
(***************************************************************************)
Root(content) == [of |-> content, salt |-> 0]

BadRoot(content) == [of |-> content, salt |-> 1]

calculate_transaction_merkle_root(b) ==
  Root([i \in 1..Len(b.input_transactions) |-> b.input_transactions[i].id])

RECURSIVE Flatten(_)
Flatten(seqs) == IF seqs = <<>> THEN <<>> ELSE seqs[1] \o Flatten(Tail(seqs))

\* region_traces: per region the cycle traces, per cycle the shard traces.
\* The root is the Merkle root of the per-shard roots, taken in order
ShardRoots(region_traces) ==
  Flatten([r \in 1..Len(region_traces) |->
    Flatten([c \in 1..Len(region_traces[r]) |->
      [h \in 1..Len(region_traces[r][c]) |-> Root(region_traces[r][c][h])]])])

calculate_action_merkle_root(region_traces) == Root(ShardRoots(region_traces))

\* validate_block_header without the comparison of the timestamp with
\* head_block_time(): C10 has to tell it from validate_block_header
validate_block_header_NoTime(s, skip, b) ==
  LET producer == get_scheduled_producer(s, get_slot_at_time(s, b.timestamp))
  IN IF head_block_id(s) # b.previous THEN "block_validate"
     ELSE IF b.num % BlocksPerRound # 0 /\ b.new_producers # <<>>
          THEN "block_validate"
     ELSE IF ~skip.skip_producer_signature /\ b.signee # producer
          THEN "block_validate"
     ELSE IF ~skip.skip_producer_schedule_check /\ b.producer # producer
          THEN "block_validate"
     ELSE IF calculate_transaction_merkle_root(b) # b.transaction_mroot
          THEN "assert"
     ELSE "none"

\* validate_block_header without the check of new_producers against the
\* start of a round: C22 has to tell it from validate_block_header
validate_block_header_AnyRound(s, skip, b) ==
  LET producer == get_scheduled_producer(s, get_slot_at_time(s, b.timestamp))
  IN IF head_block_id(s) # b.previous THEN "block_validate"
     ELSE IF ~(head_block_time(s) < b.timestamp) THEN "block_validate"
     ELSE IF ~skip.skip_producer_signature /\ b.signee # producer
          THEN "block_validate"
     ELSE IF ~skip.skip_producer_schedule_check /\ b.producer # producer
          THEN "block_validate"
     ELSE IF calculate_transaction_merkle_root(b) # b.transaction_mroot
          THEN "assert"
     ELSE "none"

(***************************************************************************)
(* validate_block_header: "none" or the exception it raises                *)
(***************************************************************************)
validate_block_header(s, skip, b) ==
  LET producer == get_scheduled_producer(s, get_slot_at_time(s, b.timestamp))
  IN IF head_block_id(s) # b.previous THEN "block_validate"
     ELSE IF ~(head_block_time(s) < b.timestamp) THEN "block_validate"
     ELSE IF b.num % BlocksPerRound # 0 /\ b.new_producers # <<>>
          THEN "block_validate"
     ELSE IF ~skip.skip_producer_signature /\ b.signee # producer
          THEN "block_validate"
     ELSE IF ~skip.skip_producer_schedule_check /\ b.producer # producer
          THEN "block_validate"
     ELSE IF calculate_transaction_merkle_root(b) # b.transaction_mroot
          THEN "assert"
     ELSE "none"

(***************************************************************************)
(* _finalize_block and the updates it makes                                *)
(***************************************************************************)
update_global_properties(s, b) ==
  IF ~is_start_of_round(b.num) THEN s
  ELSE
    LET schedule == _calculate_producer_schedule(s)
        pend     == s.db.pending_active_producers
    IN IF b.new_producers # <<>> /\ schedule # b.new_producers[1]
       THEN Raise(s, "assert")
       ELSE IF _head_producer_schedule(s) # schedule /\ b.new_producers = <<>>
       THEN Raise(s, "assert")
       ELSE [s EXCEPT !.db.pending_active_producers =
               IF pend # <<>> /\ Last(pend).first = b.num
               THEN [pend EXCEPT ![Len(pend)].second = schedule]
               ELSE Append(pend, [first |-> b.num, second |-> schedule])]

\* the producers scheduled for the slots 1..missed that are not b.producer
MissedBy(s, b, missed, p) ==
  Cardinality({i \in 1..missed :
                 get_scheduled_producer(s, i) = p /\ p # b.producer})

update_global_dynamic_data(s, b) ==
  IF ~b.block_mroot_ok THEN Raise(s, "assert")
  ELSE
    LET missed_blocks ==
          (IF head_block_num(s) = 0 THEN 1
           ELSE get_slot_at_time(s, b.timestamp)) - 1
        s1 == [s EXCEPT !.db.producers =
                 [p \in Producers |->
                    [@[p] EXCEPT !.total_missed =
                       @ + MissedBy(s, b, missed_blocks, p)]]]
        s2 == [s1 EXCEPT !.db.head_block_number = b.num,
                         !.db.head_block_id = b,
                         !.db.time = b.timestamp,
                         !.db.current_producer = b.producer,
                         !.db.current_absolute_slot = @ + missed_blocks + 1]
    IN [s2 EXCEPT !.fork =
          fork_set_max_size(@, s2.db.head_block_number
                                 - s2.db.last_irreversible_block_num + 1)]

update_signing_producer(s, signing_producer, b) ==
  LET new_block_aslot ==
        s.db.current_absolute_slot + get_slot_at_time(s, b.timestamp)
  IN [s EXCEPT !.db.producers[signing_producer] =
        [@ EXCEPT !.last_aslot = new_block_aslot,
                  !.last_confirmed_block_num = b.num]]

\* the element std::nth_element leaves at position `offset' (from 0):
\* the value with at most `offset' smaller and enough smaller-or-equal ones
NthSmallest(vals, offset) ==
  CHOOSE v \in Range(vals) :
    /\ Cardinality({i \in 1..Len(vals) : vals[i] < v}) <= offset
    /\ Cardinality({i \in 1..Len(vals) : vals[i] <= v}) > offset

\* appends the blocks from..to, each fetched by number; a block that cannot
\* be fetched fails assert(block)
RECURSIVE WriteIrreversible(_, _, _)
WriteIrreversible(s, from, to) ==
  IF from > to \/ s.exc # "none" THEN s
  ELSE LET block == fetch_block_by_number(s, from)
       IN IF block = NullId THEN Raise(s, "abort")
          ELSE WriteIrreversible([s EXCEPT !.log = Append(@, block)],
                                 from + 1, to)

\* the loop that erases the pending schedules ends only when every entry has
\* an activation block below new_lib
ActivateSchedule(s, new_lib) ==
  LET pend == s.db.pending_active_producers
      due  == {i \in 1..Len(pend) : pend[i].first < new_lib}
  IN IF due = {} THEN s
     ELSE IF \E i \in 1..Len(pend) : ~(pend[i].first < new_lib)
          THEN Raise(s, "hang")
     ELSE [s EXCEPT !.db.pending_active_producers = <<>>,
                    !.db.active_producers =
                       pend[CHOOSE i \in due : \A j \in due : j <= i].second]

\* a variant whose offset is the threshold itself, not percent_100 minus it
new_last_irreversible_block_num_Threshold(s) ==
  LET prods  == s.db.active_producers.producers
  IN NthSmallest([i \in 1..Len(prods) |->
                    s.db.producers[prods[i]].last_confirmed_block_num],
                 (Len(prods) * IrreversibleThresholdPercent) \div Percent100)

\* lines 1157-1169: the last_confirmed_block_num at the threshold offset
new_last_irreversible_block_num(s) ==
  LET prods  == s.db.active_producers.producers
  IN NthSmallest([i \in 1..Len(prods) |->
                    s.db.producers[prods[i]].last_confirmed_block_num],
                 (Len(prods) * (Percent100 - IrreversibleThresholdPercent))
                   \div Percent100)

\* lines 1171-1175
StoreIrreversible(s, new_lib) ==
  IF new_lib > s.db.last_irreversible_block_num
  THEN [s EXCEPT !.db.last_irreversible_block_num = new_lib]
  ELSE s

\* lines 1177-1192
WriteNewBlocks(s, last_block_on_disk, new_lib) ==
  IF last_block_on_disk < new_lib
  THEN WriteIrreversible(s, last_block_on_disk + 1, new_lib)
  ELSE s

\* lines 1194-1212
ActivateNewSchedule(s, last_block_on_disk, new_lib) ==
  IF new_lib > last_block_on_disk THEN ActivateSchedule(s, new_lib) ELSE s

\* lines 1214-1219
CommitIrreversible(s, new_lib) ==
  commit([s EXCEPT !.fork =
            fork_set_max_size(@, head_block_num(s) - new_lib + 1)],
         new_lib)

AdvanceIrreversible(s, last_block_on_disk, new_lib) ==
  Bind(Bind(Bind(StoreIrreversible(s, new_lib),
         LAMBDA t : WriteNewBlocks(t, last_block_on_disk, new_lib)),
         LAMBDA t : ActivateNewSchedule(t, last_block_on_disk, new_lib)),
         LAMBDA t : CommitIrreversible(t, new_lib))

update_last_irreversible_block(s) ==
  AdvanceIrreversible(s, Len(s.log), new_last_irreversible_block_num(s))

\* a variant that writes the slot after the block's own
create_block_summary_NextSlot(s, b) ==
  [s EXCEPT !.db.block_summary[(b.num + 1) % SummaryRingSize] = b]

create_block_summary(s, b) ==
  [s EXCEPT !.db.block_summary[b.num % SummaryRingSize] = b]

\* the body of clear_expired_transactions is commented out
clear_expired_transactions(s) == s

\* the exception of validate_block_header, when there is one, is thrown
ThrowIf(s, hdr) == Check(s, hdr = "none", hdr)

_finalize_block(s, b, skip) ==
  LET signing_producer ==
        get_scheduled_producer(s, get_slot_at_time(s, b.timestamp))
      s1 == ThrowIf(s, validate_block_header(s, skip, b))
      s2 == Bind(s1, LAMBDA t : update_global_properties(t, b))
      s3 == Bind(s2, LAMBDA t : update_global_dynamic_data(t, b))
      s4 == Bind(s3, LAMBDA t : update_signing_producer(t, signing_producer, b))
      s5 == Bind(s4, LAMBDA t : update_last_irreversible_block(t))
      s6 == Bind(s5, LAMBDA t : create_block_summary(t, b))
  IN Bind(s6, LAMBDA t : clear_expired_transactions(t))

(***************************************************************************)
(* Transactions.  _apply_transaction runs the actions (which fail when the *)
(* transaction's fault is "exec"), stamps region and cycle into the trace  *)
(* and charges the authorizing account's bandwidth.  `trace' of the result *)
(* is the transaction trace.                                               *)
(***************************************************************************)
\* the transaction index of the store, searched by id
is_known_transaction(s, id) == \E o \in s.db.transactions : o.trx_id = id

\* the four members below are defined by the controller; no method of the
\* controller calls them.  Each validator gives "none" or the exception it
\* raises.
validate_uniqueness(s, skip, trx) ==
  IF skip.skip_transaction_dupe_check THEN "none"
  ELSE IF is_known_transaction(s, trx.id) THEN "tx_duplicate" ELSE "none"

record_transaction(s, trx) ==
  [s EXCEPT !.db.transactions =
     @ \cup {[trx_id |-> trx.id, expiration |-> trx.expiration]}]

\* verify_reference_block compares the referenced id with the ring slot
validate_tapos(s, skip, trx) ==
  IF skip.skip_tapos_check THEN "none"
  ELSE IF s.db.block_summary[trx.ref_block_num % SummaryRingSize]
            = trx.ref_block
  THEN "none" ELSE "transaction"

validate_expiration(s, trx) ==
  IF trx.expiration > head_block_time(s) + MaxTransactionLifetime
  THEN "transaction"
  ELSE IF head_block_time(s) > trx.expiration THEN "transaction"
  ELSE "none"

TraceOf(trx, region_id, cycle_index) ==
  [id |-> trx.id, region_id |-> region_id, cycle_index |-> cycle_index]

_apply_transaction(s, trx) ==
  IF trx.fault = "exec" THEN Raise(s, "assert")
  ELSE [s EXCEPT !.db.bandwidth[trx.actor] = @ + 1]

FindTrx(b, id) ==
  {i \in 1..Len(b.input_transactions) : b.input_transactions[i].id = id}

\* the transaction the trx_index of __apply_block maps id to: the last one
\* of input_transactions with that id
TrxById(b, id) ==
  b.input_transactions[CHOOSE i \in FindTrx(b, id) :
                          \A j \in FindTrx(b, id) : j <= i]

RECURSIVE Concat(_)
Concat(seqs) == IF seqs = <<>> THEN <<>> ELSE seqs[1] \o Concat(Tail(seqs))

\* the receipts of a block in the order __apply_block visits them
\* variant: a receipt of any status is applied
ReceiptsOf_AnyStatus(b) ==
  Concat([r \in 1..Len(b.regions) |->
    Concat([c \in 1..Len(b.regions[r].cycles_summary) |->
      Concat([h \in 1..Len(b.regions[r].cycles_summary[c]) |->
        [k \in 1..Len(b.regions[r].cycles_summary[c][h]) |->
           [receipt |-> [b.regions[r].cycles_summary[c][h][k]
                           EXCEPT !.status = "executed"],
            region_id |-> b.regions[r].region,
            cycle_index |-> c - 1, shard_index |-> h - 1]]])])])

ReceiptsOf(b) ==
  Concat([r \in 1..Len(b.regions) |->
    Concat([c \in 1..Len(b.regions[r].cycles_summary) |->
      Concat([h \in 1..Len(b.regions[r].cycles_summary[c]) |->
        [k \in 1..Len(b.regions[r].cycles_summary[c][h]) |->
           [receipt |-> b.regions[r].cycles_summary[c][h][k],
            region_id |-> b.regions[r].region,
            cycle_index |-> c - 1, shard_index |-> h - 1]]])])])

RECURSIVE ApplyReceipts(_, _, _)
ApplyReceipts(s, b, rs) ==
  IF rs = <<>> \/ s.exc # "none" THEN s
  ELSE LET r == rs[1]
       IN IF r.receipt.status # "executed" THEN ApplyReceipts(s, b, Tail(rs))
          ELSE IF FindTrx(b, r.receipt.id) = {} THEN Raise(s, "assert")
          ELSE ApplyReceipts(_apply_transaction(s, TrxById(b, r.receipt.id)),
                             b, Tail(rs))

\* the block trace __apply_block builds: one transaction trace per executed
\* receipt, in the receipt's region, cycle and shard
BlockTraceOf(b) ==
  [r \in 1..Len(b.regions) |->
    [c \in 1..Len(b.regions[r].cycles_summary) |->
      [h \in 1..Len(b.regions[r].cycles_summary[c]) |->
        LET shard == b.regions[r].cycles_summary[c][h]
            exe   == {k \in 1..Len(shard) : shard[k].status = "executed"
                                            /\ FindTrx(b, shard[k].id) # {}}
        IN [k \in 1..Cardinality(exe) |->
              LET j == CHOOSE j \in exe :
                         Cardinality({m \in exe : m <= j}) = k
              IN TraceOf(TrxById(b, shard[j].id), b.regions[r].region,
                         c - 1)]]]]

RegionsSorted(b) ==
  \A i \in 2..Len(b.regions) : b.regions[i - 1].region < b.regions[i].region

__apply_block(s, b, skip) ==
  LET s1  == ThrowIf(s, validate_block_header(s, skip, b))
      s2  == Bind(s1, LAMBDA t : Check(t, RegionsSorted(b), "assert"))
      s3  == Bind(s2, LAMBDA t : ApplyReceipts(t, b, ReceiptsOf(b)))
      s4  == Bind(s3, LAMBDA t :
               Check(t, b.action_mroot =
                          calculate_action_merkle_root(BlockTraceOf(b)),
                     "assert"))
  IN Bind(s4, LAMBDA t : _finalize_block(t, b, skip))

\* _checkpoints.rbegin(): the entry with the largest block number
LastCheckpoint(s) ==
  CHOOSE n \in DOMAIN s.checkpoints : \A m \in DOMAIN s.checkpoints : m <= n

\* the checkpoint gate of lines 511-519, then __apply_block under the flags
\* variant: a block at a checkpointed number is not compared with the
\* checkpoint
_apply_block_Unchecked(s, b, skip) ==
  IF DOMAIN s.checkpoints # {} /\ s.checkpoints[LastCheckpoint(s)] # NullId
  THEN __apply_block(s, b, IF LastCheckpoint(s) >= b.num THEN SkipAll
                           ELSE skip)
  ELSE __apply_block(s, b, skip)

_apply_block(s, b, skip) ==
  IF DOMAIN s.checkpoints # {} /\ s.checkpoints[LastCheckpoint(s)] # NullId
  THEN Bind(Check(s, b.num \in DOMAIN s.checkpoints
                       => b = s.checkpoints[b.num], "assert"),
            LAMBDA t : __apply_block(t, b, IF LastCheckpoint(s) >= b.num
                                           THEN SkipAll ELSE skip))
  ELSE __apply_block(s, b, skip)

\* auto session = start_undo_session(true); _apply_block; session.push():
\* a session that is not pushed is rolled back when it goes out of scope
EndSession(r) ==
  IF r.exc \in {"none", "hang", "abort"} THEN r
  ELSE [undo(r) EXCEPT !.exc = r.exc]

ApplyInSession(s, b, skip) ==
  EndSession(_apply_block(start_undo_session(s), b, skip))

(***************************************************************************)
(* Pending cycle scheduler (specification 4.F).  write_scope_to_shard: the *)
(* shard that holds each write scope used in the cycle; read_scopes: the   *)
(* scopes read in the cycle; shards: the number of shards handed out.      *)
(***************************************************************************)
NewPendingCycle == [write_scope_to_shard |-> {}, read_scopes |-> {}, shards |-> 0]

ShardsTouched(pc, trx) ==
  {e[2] : e \in {e \in pc.write_scope_to_shard : e[1] \in trx.write_scope}}

\* -1 when the transaction cannot be placed in this cycle: it writes a scope
\* that the cycle reads, reads a scope that the cycle writes, or writes scopes
\* held by two shards
ScheduleShard(pc, trx) ==
  LET written == {e[1] : e \in pc.write_scope_to_shard}
      touched == ShardsTouched(pc, trx)
  IN IF \/ trx.write_scope \cap pc.read_scopes # {}
        \/ trx.read_scope \cap written # {}
        \/ Cardinality(touched) > 1
     THEN -1
     ELSE IF touched = {} THEN pc.shards
     ELSE CHOOSE h \in touched : TRUE

schedule(s, trx) ==
  LET h == ScheduleShard(s.pending_cycle, trx)
  IN IF h = -1 THEN s
     ELSE [s EXCEPT
             !.pending_cycle.shards = IF h = @ THEN @ + 1 ELSE @,
             !.pending_cycle.write_scope_to_shard =
                {e \in @ : e[1] \notin trx.write_scope}
                  \cup {<<w, h>> : w \in trx.write_scope},
             !.pending_cycle.read_scopes = @ \cup trx.read_scope]

(***************************************************************************)
(* Pending builder.  The optionals _pending_block, _pending_block_trace    *)
(* and _pending_cycle_trace are sequences of length 0 or 1;                *)
(* pending_block_session says whether _pending_block_session holds a       *)
(* session.  pending_block holds the body under assembly; the trace holds  *)
(* the cycle traces of its one region.                                     *)
(*                                                                         *)
(* Reading through an empty optional is undefined behaviour.  `ub' is what *)
(* the build makes of it: "abort" (the optional's assertion ends the       *)
(* process) or "proceeds" (the access goes through to the storage of the   *)
(* optional, which holds a moved-from, empty value).                       *)
(***************************************************************************)
UBChoices == {"abort", "proceeds"}

EmptyCycleTrace == [shard_traces |-> <<>>]

_start_pending_shard(s, ub) ==
  LET s1 == [s EXCEPT !.pending_block[1].regions[1].cycles_summary
                         [Len(s.pending_block[1].regions[1].cycles_summary)] =
                           Append(@, <<>>)]
  IN IF s.pending_cycle_trace # <<>>
     THEN [s1 EXCEPT !.pending_cycle_trace[1].shard_traces = Append(@, <<>>)]
     ELSE IF ub = "abort" THEN Raise(s1, "abort")
     ELSE s1

_start_pending_cycle(s, ub) ==
  _start_pending_shard(
    [s EXCEPT !.pending_block[1].regions[1].cycles_summary = Append(@, <<>>),
              !.pending_cycle = NewPendingCycle,
              !.pending_cycle_trace = <<EmptyCycleTrace>>], ub)

_start_pending_block(s, ub) ==
  IF s.pending_block # <<>> THEN Raise(s, "assert")
  ELSE LET s1 == [s EXCEPT
                    !.pending_block =
                       <<[regions |-> <<[region |-> 0, cycles_summary |-> <<>>]>>,
                          input_transactions |-> <<>>]>>,
                    !.pending_block_trace = <<[cycle_traces |-> <<>>]>>]
           s2 == [start_undo_session(s1) EXCEPT !.pending_block_session = TRUE]
       IN _start_pending_cycle(s2, ub)

\* no transaction of the model defers a transaction, so _apply_cycle_trace
\* creates no generated_transaction_object
_finalize_pending_cycle(s, ub) ==
  IF s.pending_cycle_trace = <<>> /\ ub = "abort" THEN Raise(s, "abort")
  ELSE LET ct == IF s.pending_cycle_trace = <<>> THEN EmptyCycleTrace
                 ELSE s.pending_cycle_trace[1]
       IN [s EXCEPT !.pending_block_trace[1].cycle_traces = Append(@, ct),
                    !.pending_cycle_trace = <<>>]

\* lines 292-303 with the receipt put at the front of its shard: C15 has to
\* tell it from PlaceTransaction
PlaceTransaction_Front(s, trx, shardnum, cyclenum, ub) ==
  LET cs     == s.pending_block[1].regions[1].cycles_summary
      s1     == IF shardnum >= Len(Last(cs))
                THEN _start_pending_shard(s, ub) ELSE s
      cs1    == s1.pending_block[1].regions[1].cycles_summary
      s2     == IF shardnum >= Len(Last(cs1)) THEN Raise(s1, "out_of_range")
                ELSE [s1 EXCEPT !.pending_block[1].regions[1].cycles_summary
                                   [Len(cs1)][shardnum + 1] =
                        <<[id |-> trx.id, status |-> "executed"]>> \o @]
      s3     == Bind(s2, LAMBDA t :
                  IF t.pending_cycle_trace = <<>>
                  THEN Raise(t, IF ub = "abort" THEN "abort" ELSE "out_of_range")
                  ELSE IF shardnum >= Len(t.pending_cycle_trace[1].shard_traces)
                  THEN Raise(t, "out_of_range")
                  ELSE [t EXCEPT !.pending_cycle_trace[1].shard_traces
                                    [shardnum + 1] =
                          Append(@, TraceOf(trx, 0, cyclenum))])
  IN Bind(s3, LAMBDA t :
       [t EXCEPT !.pending_block[1].input_transactions = Append(@, trx)])

\* lines 292-303 of _push_transaction: the receipt, the trace and the input
PlaceTransaction(s, trx, shardnum, cyclenum, ub) ==
  LET cs     == s.pending_block[1].regions[1].cycles_summary
      s1     == IF shardnum >= Len(Last(cs))
                THEN _start_pending_shard(s, ub) ELSE s
      cs1    == s1.pending_block[1].regions[1].cycles_summary
      s2     == IF shardnum >= Len(Last(cs1)) THEN Raise(s1, "out_of_range")
                ELSE [s1 EXCEPT !.pending_block[1].regions[1].cycles_summary
                                   [Len(cs1)][shardnum + 1] =
                        Append(@, [id |-> trx.id, status |-> "executed"])]
      s3     == Bind(s2, LAMBDA t :
                  IF t.pending_cycle_trace = <<>>
                  THEN Raise(t, IF ub = "abort" THEN "abort" ELSE "out_of_range")
                  ELSE IF shardnum >= Len(t.pending_cycle_trace[1].shard_traces)
                  THEN Raise(t, "out_of_range")
                  ELSE [t EXCEPT !.pending_cycle_trace[1].shard_traces
                                    [shardnum + 1] =
                          Append(@, TraceOf(trx, 0, cyclenum))])
  IN Bind(s3, LAMBDA t :
       [t EXCEPT !.pending_block[1].input_transactions = Append(@, trx)])

\* temp_session is rolled back when an exception leaves _push_transaction
_push_transaction(s, trx, ub) ==
  LET s0 == IF s.pending_block = <<>> THEN _start_pending_block(s, ub) ELSE s
      s1 == Bind(s0, LAMBDA t : start_undo_session(t))
      s2 == Bind(s1, LAMBDA t :
              Check(t, trx.fault # "account", "assert"))
      s3 == Bind(s2, LAMBDA t : Check(t, trx.fault # "auth", "tx_missing_sigs"))
      shard0 == ScheduleShard(s3.pending_cycle, trx)
      s4 == Bind(s3, LAMBDA t : schedule(t, trx))
      cyclenum == Len(s4.pending_block[1].regions[1].cycles_summary) - 1
                    + (IF shard0 = -1 THEN 1 ELSE 0)
      s5 == Bind(s4, LAMBDA t : _apply_transaction(t, trx))
      s6 == IF shard0 # -1 THEN s5
            ELSE Bind(Bind(Bind(s5,
                   LAMBDA t : _finalize_pending_cycle(t, ub)),
                   LAMBDA t : _start_pending_cycle(t, ub)),
                   LAMBDA t : schedule(t, trx))
      shardnum == IF shard0 # -1 THEN shard0
                  ELSE ScheduleShard(NewPendingCycle, trx)
      s7 == Bind(s6, LAMBDA t : PlaceTransaction(t, trx, shardnum, cyclenum, ub))
  IN IF s0.exc # "none" THEN s0
     ELSE EndSession(Bind(s7, LAMBDA t : squash(t)))

\* with_skip_flags and with_write_lock around _push_transaction
push_transaction(s, trx, ub) ==
  _push_transaction([s EXCEPT !.info.trx = <<trx>>], trx, ub)

(***************************************************************************)
(* clear_pending, pop_block                                                *)
(***************************************************************************)
\* _pending_block_session.reset(): a session that was not pushed is undone
ResetPendingSession(s) ==
  IF s.pending_block_session
  THEN [undo(s) EXCEPT !.pending_block_session = FALSE]
  ELSE s

clear_pending(s) ==
  ResetPendingSession([s EXCEPT !.pending_block_trace = <<>>,
                                !.pending_block = <<>>])

pop_block(s) ==
  LET s1 == ResetPendingSession(s)
      s2 == Check(s1, fetch_block_by_id(s1, head_block_id(s1)) # NullId,
                  "pop_empty_chain")
      s4 == Bind(s2, LAMBDA t : [t EXCEPT !.fork = fork_pop_block(@)])
  IN Bind(s4, LAMBDA t : undo(t))

(***************************************************************************)
(* _generate_block                                                         *)
(***************************************************************************)
PendingRegionTraces(s) ==
  << [c \in 1..Len(s.pending_block_trace[1].cycle_traces) |->
        s.pending_block_trace[1].cycle_traces[c].shard_traces] >>

\* the header fields assigned at lines 451-466
\* variant: every block at the start of a round announces the schedule
PendingHeader_Announces(s, when, producer, key, skip) ==
  LET num    == head_block_id(s).num + 1
      latest == _calculate_producer_schedule(s)
      body   == s.pending_block[1]
  IN [previous |-> head_block_id(s),
      num |-> num,
      timestamp |-> when,
      producer |-> producer,
      signee |-> IF skip.skip_producer_signature THEN "none" ELSE key,
      block_mroot_ok |-> TRUE,
      transaction_mroot |-> calculate_transaction_merkle_root(body),
      action_mroot |-> calculate_action_merkle_root(PendingRegionTraces(s)),
      new_producers |-> IF is_start_of_round(num)
                        THEN <<latest>> ELSE <<>>,
      regions |-> body.regions,
      input_transactions |-> body.input_transactions]

PendingHeader(s, when, producer, key, skip) ==
  LET num    == head_block_id(s).num + 1
      latest == _calculate_producer_schedule(s)
      body   == s.pending_block[1]
  IN [previous |-> head_block_id(s),
      num |-> num,
      timestamp |-> when,
      producer |-> producer,
      signee |-> IF skip.skip_producer_signature THEN "none" ELSE key,
      block_mroot_ok |-> TRUE,
      transaction_mroot |-> calculate_transaction_merkle_root(body),
      action_mroot |-> calculate_action_merkle_root(PendingRegionTraces(s)),
      new_producers |-> IF is_start_of_round(num)
                           /\ latest # _head_producer_schedule(s)
                        THEN <<latest>> ELSE <<>>,
      regions |-> body.regions,
      input_transactions |-> body.input_transactions]

\* _pending_block_session->push(), then the three resets and the fork database
FinishGenerate(s, b, skip, ub) ==
  IF ~s.pending_block_session /\ ub = "abort" THEN Raise(s, "abort")
  ELSE LET s1 == [s EXCEPT !.pending_block_trace = <<>>,
                           !.pending_block = <<>>,
                           !.pending_block_session = FALSE,
                           !.info.result = <<b>>]
       IN IF skip.skip_fork_db THEN s1
          ELSE [s1 EXCEPT !.fork = fork_push_block(@, b)]

\* _generate_block with the pending block started before the slot and the
\* producer are checked: C17 has to tell it from _generate_block
_generate_block_StartsFirst(s, when, producer, key, skip, ub) ==
  LET slot_num == get_slot_at_time(s, when)
      s1 == IF s.pending_block = <<>> THEN _start_pending_block(s, ub) ELSE s
      s2 == Bind(s1, LAMBDA t : Check(t, slot_num > 0, "assert"))
      s3 == Bind(s2, LAMBDA t :
              Check(t, get_scheduled_producer(t, slot_num) = producer, "assert"))
      s4 == Bind(s3, LAMBDA t : _finalize_pending_cycle(t, ub))
      s5 == Bind(s4, LAMBDA t :
              Check(t, skip.skip_producer_signature \/ producer = key, "assert"))
      b  == PendingHeader(s5, when, producer, key, skip)
      s6 == Bind(s5, LAMBDA t : _finalize_block(t, b, skip))
  IN Bind(s6, LAMBDA t : FinishGenerate(t, b, skip, ub))

_generate_block(s, when, producer, key, skip, ub) ==
  LET slot_num == get_slot_at_time(s, when)
      s1 == Check(s, slot_num > 0, "assert")
      s2 == Bind(s1, LAMBDA t :
              Check(t, get_scheduled_producer(t, slot_num) = producer, "assert"))
      s3 == Bind(s2, LAMBDA t :
              IF t.pending_block = <<>> THEN _start_pending_block(t, ub) ELSE t)
      s4 == Bind(s3, LAMBDA t : _finalize_pending_cycle(t, ub))
      s5 == Bind(s4, LAMBDA t :
              Check(t, skip.skip_producer_signature \/ producer = key, "assert"))
      b  == PendingHeader(s5, when, producer, key, skip)
      s6 == Bind(s5, LAMBDA t : _finalize_block(t, b, skip))
  IN Bind(s6, LAMBDA t : FinishGenerate(t, b, skip, ub))

\* with_skip_flags and with_write_lock around _generate_block
generate_block(s, when, producer, key, skip, ub) ==
  _generate_block(
    [s EXCEPT !.info.gen = <<[when |-> when, producer |-> producer,
                              key |-> key]>>],
    when, producer, key, skip, ub)

(***************************************************************************)
(* _push_block.  info records what the call did: the path taken ("direct" *)
(* with skip_fork_db, "extend", "switch" or "none"), the value returned,   *)
(* the fork database head after the insertion, the two branches of a fork  *)
(* switch, the blocks applied by it and, when one failed, its position in  *)
(* the new branch (root first).                                            *)
(***************************************************************************)
NoInfo ==
  [path |-> "", result |-> <<>>, new_head |-> NullId, first |-> <<>>,
   second |-> <<>>, applied |-> <<>>, failed |-> 0, base |-> NullId,
   block |-> NullId, trx |-> <<>>, gen |-> <<>>]

\* while (head_block_id() != target) pop_block();
RECURSIVE PopUntil(_, _)
PopUntil(s, target) ==
  IF s.exc # "none" \/ head_block_id(s) = target THEN s
  ELSE PopUntil(pop_block(s), target)

\* restore all blocks from the good fork; an exception leaves the loop
RECURSIVE RestoreBranch(_, _, _)
RestoreBranch(s, blks, skip) ==
  IF blks = <<>> \/ s.exc # "none" THEN s
  ELSE RestoreBranch(ApplyInSession(s, blks[1], skip), Tail(blks), skip)

\* lines 199-219: the block at position i of the new branch threw `exc'
FailedSwitch(s, first, second, i, exc, skip) ==
  LET gone == {first[j].data : j \in 1..(Len(first) + 1 - i)}
      s1 == [s EXCEPT !.fork.index = {it \in @ : it.data \notin gone},
                      !.info.failed = i]
      s2 == [s1 EXCEPT !.fork = fork_set_head(@, second[1])]
      s3 == PopUntil(s2, Last(second).data.previous)
      s4 == Bind(s3, LAMBDA t :
              RestoreBranch(t, [j \in 1..Len(second) |->
                                  Reverse(second)[j].data], skip))
  IN Raise(s4, exc)

RECURSIVE SwitchFrom(_, _, _, _, _)

\* a loop that returns true after the first block of the new branch: C3 has
\* to tell it from SwitchStep
SwitchStep_First(r, b, first, second, i, skip) ==
  IF r.exc = "none"
  THEN [r EXCEPT !.info.applied = Append(@, b), !.info.result = <<TRUE>>]
  ELSE IF r.exc \in {"hang", "abort"} THEN r
  ELSE FailedSwitch([r EXCEPT !.exc = "none"], first, second, i, r.exc, skip)

\* lines 190-220: r is the store after block b, at position i, was applied
SwitchStep(r, b, first, second, i, skip) ==
  IF r.exc = "none"
  THEN SwitchFrom([r EXCEPT !.info.applied = Append(@, b)],
                  first, second, i + 1, skip)
  ELSE IF r.exc \in {"hang", "abort"} THEN r
  ELSE FailedSwitch([r EXCEPT !.exc = "none"], first, second, i, r.exc, skip)

\* push all blocks on the new fork, from position i (root first)
SwitchFrom(s, first, second, i, skip) ==
  IF i > Len(first) THEN [s EXCEPT !.info.result = <<TRUE>>]
  ELSE SwitchStep(ApplyInSession(s, Reverse(first)[i].data, skip),
                  Reverse(first)[i].data, first, second, i, skip)

\* lines 183-221 on the branches fetch_branch_from returned
SwitchOn(s, branches, skip) ==
  Bind(Bind(Check(s, branches.ok, "assert"),
         LAMBDA t :
           PopUntil([t EXCEPT !.info.first = branches.first,
                              !.info.second = branches.second],
                    Last(branches.second).data.previous)),
         LAMBDA t :
           SwitchFrom([t EXCEPT !.info.base = head_block_id(t)],
                      branches.first, branches.second, 1, skip))

SwitchForks(s, skip) ==
  SwitchOn(s, fetch_branch_from(s.fork, s.fork.head.data, head_block_id(s)),
           skip)

\* the handler of lines 231-235 without _fork_db.remove: C7 has to tell it
\* from NewBlockResult
NewBlockResult_KeepsBlock(r, b) ==
  [r EXCEPT !.info.result = IF r.exc = "none" THEN <<FALSE>> ELSE <<>>]

\* lines 231-237: r is the store after the block was applied
NewBlockResult(r, b) ==
  IF r.exc \in {"none", "hang", "abort"}
  THEN [r EXCEPT !.info.result = IF r.exc = "none" THEN <<FALSE>> ELSE <<>>]
  ELSE [r EXCEPT !.fork = fork_remove(@, b)]

\* lines 227-237
ApplyNewBlock(s, b, skip) == NewBlockResult(ApplyInSession(s, b, skip), b)

\* lines 178-222 with >= for > at line 181, which switches to a branch of the
\* height of the head: C8 has to tell it from OnNewHead
OnNewHead_SwitchOnTie(s, new_head, b, skip) ==
  IF new_head.previous # head_block_id(s)
  THEN IF new_head.num >= head_block_num(s)
       THEN SwitchForks([s EXCEPT !.info.path = "switch"], skip)
       ELSE [s EXCEPT !.info.path = "none", !.info.result = <<FALSE>>]
  ELSE ApplyNewBlock([s EXCEPT !.info.path = "extend"], b, skip)

\* lines 178-237: new_head is what _fork_db.push_block returned
OnNewHead(s, new_head, b, skip) ==
  IF new_head.previous # head_block_id(s)
  THEN IF new_head.num > head_block_num(s)
       THEN SwitchForks([s EXCEPT !.info.path = "switch"], skip)
       ELSE [s EXCEPT !.info.path = "none", !.info.result = <<FALSE>>]
  ELSE ApplyNewBlock([s EXCEPT !.info.path = "extend"], b, skip)

\* _fork_db.push_block(new_block), line 176
PushToForkDb(s, b) ==
  [s EXCEPT !.fork = fork_push_block(@, b),
            !.info.new_head = fork_push_block(s.fork, b).head.data]

_push_block(s, b, skip) ==
  IF skip.skip_fork_db
  THEN ApplyNewBlock([s EXCEPT !.info.path = "direct"], b, skip)
  ELSE OnNewHead(PushToForkDb(s, b), fork_push_block(s.fork, b).head.data,
                 b, skip)

add_checkpoints(s, checkpts) ==
  [s EXCEPT !.checkpoints =
     [n \in DOMAIN checkpts \cup DOMAIN @ |->
        IF n \in DOMAIN checkpts THEN checkpts[n] ELSE @[n]]]

\* without_pending_transactions: the pending block is cleared before the
\* block is pushed
push_block(s, b, skip) ==
  _push_block([clear_pending(s) EXCEPT !.info.block = b], b, skip)

(***************************************************************************)
(* replay, and the constructor with the destructor before it               *)
(***************************************************************************)
RECURSIVE ReplayFrom(_, _)
ReplayFrom(s, i) ==
  IF i > Len(s.log) \/ s.exc # "none" THEN s
  ELSE ReplayFrom(_apply_block(s, s.log[i], ReplaySkip), i + 1)

\* on_exit, lines 1017-1019: runs when replay returns and when it throws
ReplayExit(s) == [s EXCEPT !.currently_replaying_blocks = FALSE]

\* replay without the set_revision of its last line
replay_NoSetRevision(s) ==
  LET s0 == [s EXCEPT !.currently_replaying_blocks = TRUE]
  IN ReplayExit(IF s0.log = <<>> THEN s0 ELSE ReplayFrom(s0, 1))

replay(s) ==
  LET s0 == [s EXCEPT !.currently_replaying_blocks = TRUE]
  IN ReplayExit(IF s0.log = <<>> THEN s0
                ELSE Bind(ReplayFrom(s0, 1),
                          LAMBDA t : set_revision(t, head_block_num(t))))

_spinup_db(s) ==
  LET s1 == undo_all(s)
  IN Check(s1, s1.revision = head_block_num(s1), "assert")

_spinup_fork_db(s) ==
  IF s.log = <<>> THEN [s EXCEPT !.fork = EmptyForkDb]
  ELSE Check([s EXCEPT !.fork = fork_start_block(Last(s.log))],
             Last(s.log) = head_block_id(s) \/ head_block_num(s) = 0,
             "assert")

\* ~chain_controller, then chain_controller on the block log that is on
\* disk and on the store that is on disk (wipe: the store directory is new
\* and _initialize_chain creates the genesis state)
Construct(s, wipe) ==
  LET s0 == clear_pending(s)
      s1 == IF wipe
            THEN [s0 EXCEPT !.db = GenesisDb, !.undo = <<>>, !.revision = 0]
            ELSE s0
      s2 == _spinup_db([s1 EXCEPT !.pending_cycle = NewPendingCycle,
                                  !.currently_replaying_blocks = FALSE,
                                  !.checkpoints = <<>>,
                                  !.pending_cycle_trace = <<>>,
                                  !.fork = EmptyForkDb])
      s3 == Bind(s2, LAMBDA t : _spinup_fork_db(t))
  IN Bind(s3, LAMBDA t :
       IF t.log # <<>> /\ head_block_num(t) < Last(t.log).num
       THEN replay([t EXCEPT !.info.path = "replay"]) ELSE t)

(***************************************************************************)
(* The controller as a state machine.  Every public operation is one       *)
(* action; its inputs come from the environment sets below.                *)
(***************************************************************************)
VARIABLES db, undo_stack, revision, fork_db, block_log, pending_block,
          pending_block_trace, pending_cycle_trace, pending_block_session,
          pending_cycle, currently_replaying_blocks, stopped, ret, ops,
          write_lock, running, auth_request, _checkpoints

vars == <<db, undo_stack, revision, fork_db, block_log, pending_block,
          pending_block_trace, pending_cycle_trace, pending_block_session,
          pending_cycle, currently_replaying_blocks, stopped, ret, ops,
          write_lock, running, auth_request, _checkpoints>>

\* the controller's members and the store as one value
State ==
  [db |-> db, undo |-> undo_stack, revision |-> revision, fork |-> fork_db,
   log |-> block_log, pending_block |-> pending_block,
   pending_block_trace |-> pending_block_trace,
   pending_cycle_trace |-> pending_cycle_trace,
   pending_block_session |-> pending_block_session,
   pending_cycle |-> pending_cycle,
   currently_replaying_blocks |-> currently_replaying_blocks,
   checkpoints |-> _checkpoints,
   exc |-> "none", info |-> NoInfo]

\* the operation ends in state r: it returned, threw, or never returns
\* ("hang": a loop that does not terminate; "abort": the process ends)
Effect(op, r) ==
  /\ ret' = [op |-> op, exc |-> r.exc, info |-> r.info]
  /\ IF r.exc \in {"hang", "abort"}
     THEN /\ stopped' = r.exc
          /\ UNCHANGED <<db, undo_stack, revision, fork_db, block_log,
                         pending_block, pending_block_trace,
                         pending_cycle_trace, pending_block_session,
                         pending_cycle, currently_replaying_blocks,
                         _checkpoints>>
     ELSE /\ stopped' = stopped
          /\ db' = r.db
          /\ undo_stack' = r.undo
          /\ revision' = r.revision
          /\ fork_db' = r.fork
          /\ block_log' = r.log
          /\ pending_block' = r.pending_block
          /\ pending_block_trace' = r.pending_block_trace
          /\ pending_cycle_trace' = r.pending_cycle_trace
          /\ pending_block_session' = r.pending_block_session
          /\ pending_cycle' = r.pending_cycle
          /\ currently_replaying_blocks' = r.currently_replaying_blocks
          /\ _checkpoints' = r.checkpoints

\* the threads of the callers; write_lock is the thread that holds the
\* store's write lock (0: none) and running[t] the call thread t is inside
Threads == 1..ThreadCount

NoCall == [op |-> "idle"]

\* one call at a time: the environment calls the controller from one thread
Outcome(op, r) ==
  /\ ops < MaxOps
  /\ ops' = ops + 1
  /\ Effect(op, r)
  /\ UNCHANGED <<write_lock, running, auth_request>>

Init ==
  /\ db = GenesisDb
  /\ undo_stack = <<>>
  /\ revision = 0
  /\ fork_db = EmptyForkDb
  /\ block_log = <<>>
  /\ pending_block = <<>>
  /\ pending_block_trace = <<>>
  /\ pending_cycle_trace = <<>>
  /\ pending_block_session = FALSE
  /\ pending_cycle = NewPendingCycle
  /\ currently_replaying_blocks = FALSE
  /\ _checkpoints = <<>>
  /\ write_lock = 0
  /\ running = [t \in Threads |-> NoCall]
  /\ auth_request = [trx |-> <<>>, provided_keys |-> {}]
  /\ stopped = "no"
  /\ ret = [op |-> "construct", exc |-> "none", info |-> NoInfo]
  /\ ops = 0

(***************************************************************************)
(* Environment: the transactions and the blocks that reach the controller  *)
(***************************************************************************)
\* a block id that no slot of the block summary ring holds
ForeignId == [num |-> 0, fork |-> "other"]

\* The transactions users sign, each with its time to live (expiration minus
\* the head block time when it is pushed) and the block it references:
\* "good" writes alice's scope, "read" reads it, "bob" writes bob's scope;
\* "account" names an account that does not exist, "auth" lacks a signature,
\* "exec" has an action that throws; "expired", "far" and "tapos" have an
\* expiration in the past, an expiration beyond the maximum lifetime and a
\* reference block of another fork.
GoodTrx ==
  [kind |-> "good", actor |-> "alice", fault |-> "none", read_scope |-> {},
   write_scope |-> {"alice"}, ttl |-> 1, ref_block_num |-> 0,
   ref_block |-> NullId]

FailingTrx == [GoodTrx EXCEPT !.kind = "exec", !.fault = "exec"]

TrxTemplates ==
  {GoodTrx, FailingTrx,
   [GoodTrx EXCEPT !.kind = "read", !.read_scope = {"alice"},
                   !.write_scope = {}],
   [GoodTrx EXCEPT !.kind = "bob", !.actor = "bob", !.write_scope = {"bob"}],
   [GoodTrx EXCEPT !.kind = "account", !.fault = "account"],
   [GoodTrx EXCEPT !.kind = "auth", !.fault = "auth"],
   [GoodTrx EXCEPT !.kind = "expired", !.ttl = -1],
   [GoodTrx EXCEPT !.kind = "far", !.ttl = MaxTransactionLifetime + 1],
   [GoodTrx EXCEPT !.kind = "tapos", !.ref_block = ForeignId]}

\* the signed transaction made from a template at time `now'; its id is the
\* digest of its content
TrxAt(tpl, now) ==
  [id |-> [kind |-> tpl.kind, expiration |-> now + tpl.ttl],
   actor |-> tpl.actor, fault |-> tpl.fault, read_scope |-> tpl.read_scope,
   write_scope |-> tpl.write_scope, expiration |-> now + tpl.ttl,
   ref_block_num |-> tpl.ref_block_num, ref_block |-> tpl.ref_block]

\* the transactions that can be pushed now
TrxUniverse == {TrxAt(tpl, db.time) : tpl \in TrxTemplates}

EmptyBody ==
  [regions |-> <<[region |-> 0, cycles_summary |-> << << <<>> >> >>]>>,
   input_transactions |-> <<>>]

BodyWith(trx) ==
  [regions |-> <<[region |-> 0,
                  cycles_summary |->
                    << << <<[id |-> trx.id, status |-> "executed"]>> >> >>]>>,
   input_transactions |-> <<trx>>]

\* what a peer's block can look like: its distance in slots from its parent
\* (0: not later than the parent), whether its producer is the one the
\* genesis schedule gives the slot, and its body (empty, or one transaction
\* signed when the parent was the head)
\* and what it carries beside a well-formed header: a transaction_mroot or
\* an action_mroot that is not the root of its body, or a new_producers
\* schedule
Tampers == {"none", "transaction_mroot", "action_mroot", "new_producers"}

NetVariants ==
  {v \in [d : 0..MaxGap, scheduled : BOOLEAN, body : {"empty", "trx"},
          tamper : Tampers] :
     /\ ~v.scheduled => v.d = 1
     /\ v.body = "trx" => (v.scheduled /\ v.d = 1)
     /\ v.tamper # "none" => (v.scheduled /\ v.d = 1)
     /\ v.tamper \in {"transaction_mroot", "action_mroot"} => v.body = "trx"
     /\ v.tamper = "new_producers" => v.body = "empty"}

TimeOf(id) == IF id = NullId THEN 0 ELSE id.timestamp

BodyOf(parent, v) ==
  IF v.body = "trx" THEN BodyWith(TrxAt(GoodTrx, TimeOf(parent)))
  ELSE EmptyBody

\* the absolute slot a peer that applied the chain up to block `id' is at
\* (the peer runs update_global_dynamic_data as well)
RECURSIVE PeerSlot(_)
PeerSlot(id) ==
  IF id = NullId THEN 0
  ELSE PeerSlot(id.previous)
         + (IF id.previous = NullId THEN 1
            ELSE id.timestamp - TimeOf(id.previous))

\* the producer the genesis schedule gives the slot d slots after `parent'
SlotOwner(parent, d) ==
  ProducerNames[(((PeerSlot(parent) + d) % BlocksPerRound)
                   \div ProducerRepetitions) + 1]

OtherProducer(p) == CHOOSE q \in Producers : q # p

\* a block built on `parent' by some other node
NetBlock(parent, v) ==
  [previous |-> parent,
   num |-> parent.num + 1,
   timestamp |-> TimeOf(parent) + v.d,
   producer |-> IF v.scheduled THEN SlotOwner(parent, v.d)
                ELSE OtherProducer(SlotOwner(parent, v.d)),
   signee |-> IF v.scheduled THEN SlotOwner(parent, v.d)
              ELSE OtherProducer(SlotOwner(parent, v.d)),
   block_mroot_ok |-> TRUE,
   transaction_mroot |->
     IF v.tamper = "transaction_mroot"
     THEN BadRoot(calculate_transaction_merkle_root(BodyOf(parent, v)).of)
     ELSE calculate_transaction_merkle_root(BodyOf(parent, v)),
   action_mroot |->
     IF v.tamper = "action_mroot"
     THEN BadRoot(ShardRoots(BlockTraceOf(BodyOf(parent, v))))
     ELSE calculate_action_merkle_root(BlockTraceOf(BodyOf(parent, v))),
   new_producers |->
     IF v.tamper = "new_producers" THEN <<GenesisSchedule>> ELSE <<>>,
   regions |-> BodyOf(parent, v).regions,
   input_transactions |-> BodyOf(parent, v).input_transactions]

\* the blocks a peer can send: they link to the head or to a block of the
\* fork database
Parents == {db.head_block_id} \cup ForkIds(fork_db)

\* the flags a block is pushed with: the producer checks are skipped for a
\* block that needs it, and a block of the scheduled producer is also pushed
\* past the fork database
PushRequests ==
  {q \in [v : NetVariants, skip : SkipChoices] :
     /\ q.skip = SkipChecks => ~q.v.scheduled
     /\ q.skip = SkipAll => (q.v.scheduled /\ q.v.d <= 1)}

\* the calls of generate_block: a slot, a producer and the key of a producer
GenerateRequests ==
  {g \in [d : 0..MaxGap, producer : Producers, key : Producers] :
     /\ g.d = 0 => g.producer = ProducerNames[1]
     /\ g.d # 1 => g.key = g.producer}

\* the number of transactions the pending block holds
PendingCount ==
  IF pending_block = <<>> THEN 0
  ELSE Len(pending_block[1].input_transactions)

\* an operation reads through an empty optional only when it finds a pending
\* block whose cycle trace or whose session is gone; otherwise what the build
\* makes of such a read does not matter
UBOutcomes ==
  IF pending_block # <<>> /\ (pending_cycle_trace = <<>> \/ ~pending_block_session)
  THEN UBChoices ELSE {"proceeds"}

(***************************************************************************)
(* Actions                                                                 *)
(***************************************************************************)
PushBlock(parent, v, skip) ==
  LET b == NetBlock(parent, v)
  IN /\ stopped = "no"
     /\ Outcome("push_block", push_block(State, b, skip))

GenerateBlock(d, producer, key, ub) ==
  /\ stopped = "no"
  /\ Outcome("generate_block",
             generate_block(State, db.time + d, producer, key, NoSkip, ub))

PushTransaction(trx, ub) ==
  /\ stopped = "no"
  /\ PendingCount < MaxPendingTrx
  /\ Outcome("push_transaction", push_transaction(State, trx, ub))

PopBlock ==
  /\ stopped = "no"
  /\ Outcome("pop_block", pop_block(State))

ClearPending ==
  /\ stopped = "no"
  /\ Outcome("clear_pending", clear_pending(State))

Replay ==
  /\ stopped = "no"
  /\ Outcome("replay", replay(State))

\* an exception that leaves the constructor ends the process
Uncaught(r) == IF r.exc = "none" THEN r ELSE [r EXCEPT !.exc = "abort"]

\* the node is shut down and started again, on the same store or on a new one
Restart(wipe) ==
  /\ stopped = "no"
  /\ Outcome("construct", Uncaught(Construct(State, wipe)))

Next ==
  \/ \E parent \in Parents, q \in PushRequests : PushBlock(parent, q.v, q.skip)
  \/ \E g \in GenerateRequests, ub \in UBOutcomes :
       GenerateBlock(g.d, g.producer, g.key, ub)
  \/ \E trx \in TrxUniverse, ub \in UBOutcomes : PushTransaction(trx, ub)
  \/ PopBlock
  \/ ClearPending
  \/ Replay
  \/ \E wipe \in BOOLEAN : Restart(wipe)

Spec == Init /\ [][Next]_vars

(***************************************************************************)
(* update_last_irreversible_block on its own, lines 1152-1175: the store   *)
(* holds L active producers with any last_confirmed_block_num and any      *)
(* stored last_irreversible_block_num, and the function computes the new   *)
(* one.  info.result keeps the stored value the call found.                *)
(***************************************************************************)
LibStores ==
  {[GenesisDb EXCEPT
      !.active_producers.producers = [i \in 1..n |-> ProducerNames[i]],
      !.producers = [p \in {ProducerNames[i] : i \in 1..n} |->
                       [last_confirmed_block_num |-> c[p], last_aslot |-> 0,
                        total_missed |-> 0]],
      !.last_irreversible_block_num = lib] :
     <<n, c, lib>> \in
       UNION {{n} \X [{ProducerNames[i] : i \in 1..n} -> 0..MaxConfirmed]
                  \X (0..MaxConfirmed) : n \in 1..LibProducers}}

InitLib ==
  /\ db \in LibStores
  /\ undo_stack = <<>>
  /\ revision = 0
  /\ fork_db = EmptyForkDb
  /\ block_log = <<>>
  /\ pending_block = <<>>
  /\ pending_block_trace = <<>>
  /\ pending_cycle_trace = <<>>
  /\ pending_block_session = FALSE
  /\ pending_cycle = NewPendingCycle
  /\ currently_replaying_blocks = FALSE
  /\ _checkpoints = <<>>
  /\ write_lock = 0
  /\ running = [t \in Threads |-> NoCall]
  /\ auth_request = [trx |-> <<>>, provided_keys |-> {}]
  /\ stopped = "no"
  /\ ret = [op |-> "construct", exc |-> "none", info |-> NoInfo]
  /\ ops = 0

UpdateLastIrreversible ==
  /\ ops = 0
  /\ ops' = 1
  /\ db' = StoreIrreversible(State, new_last_irreversible_block_num(State)).db
  /\ ret' = [op |-> "update_last_irreversible_block", exc |-> "none",
             info |-> [NoInfo EXCEPT
                         !.result = <<db.last_irreversible_block_num>>]]
  /\ UNCHANGED <<undo_stack, revision, fork_db, block_log, pending_block,
                 pending_block_trace, pending_cycle_trace,
                 pending_block_session, pending_cycle,
                 currently_replaying_blocks, stopped, write_lock, running,
                 auth_request,
                 _checkpoints>>

NextLib == UpdateLastIrreversible

SpecLib == InitLib /\ [][NextLib]_vars

(***************************************************************************)
(* The public methods called from several threads.  A call is two steps:   *)
(* the thread enters the method, through _db.with_write_lock when the      *)
(* method takes it, and the method's body runs to its end and releases     *)
(* the lock.  with_write_lock lets one thread in at a time.                *)
(***************************************************************************)
\* push_block (line 162), push_transaction (line 252) and generate_block
\* (line 424) run their body inside _db.with_write_lock; pop_block,
\* clear_pending and replay call it nowhere
TakesWriteLock(op) ==
  op \in {"push_block", "push_transaction", "generate_block"}

\* the calls a thread can make on the current state
ThreadCalls ==
  {[op |-> "push_transaction", trx |-> TrxAt(GoodTrx, db.time)],
   [op |-> "push_block",
    b |-> NetBlock(db.head_block_id,
                   [d |-> 1, scheduled |-> TRUE, body |-> "empty",
                    tamper |-> "none"])],
   [op |-> "generate_block", when |-> db.time + 1,
    producer |-> SlotOwner(db.head_block_id, 1)],
   [op |-> "pop_block"], [op |-> "clear_pending"], [op |-> "replay"]}

Enter(t, c) ==
  /\ stopped = "no"
  /\ ops < MaxThreadCalls
  /\ running[t] = NoCall
  /\ TakesWriteLock(c.op) => write_lock = 0
  /\ running' = [running EXCEPT ![t] = c]
  /\ write_lock' = IF TakesWriteLock(c.op) THEN t ELSE write_lock
  /\ ops' = ops + 1
  /\ UNCHANGED <<db, undo_stack, revision, fork_db, block_log, pending_block,
                 pending_block_trace, pending_cycle_trace,
                 pending_block_session, pending_cycle,
                 currently_replaying_blocks, stopped, ret, auth_request,
                 _checkpoints>>

Leave(t, ub) ==
  /\ stopped = "no"
  /\ running[t] # NoCall
  /\ LET c == running[t]
     IN Effect(c.op,
          CASE c.op = "push_transaction" -> push_transaction(State, c.trx, ub)
            [] c.op = "push_block" -> push_block(State, c.b, NoSkip)
            [] c.op = "generate_block" ->
                 generate_block(State, c.when, c.producer, c.producer,
                                NoSkip, ub)
            [] c.op = "pop_block" -> pop_block(State)
            [] c.op = "clear_pending" -> clear_pending(State)
            [] c.op = "replay" -> replay(State))
  /\ running' = [running EXCEPT ![t] = NoCall]
  /\ write_lock' = IF write_lock = t THEN 0 ELSE write_lock
  /\ ops' = ops
  /\ UNCHANGED auth_request

NextThreads ==
  \/ \E t \in Threads, c \in ThreadCalls : Enter(t, c)
  \/ \E t \in Threads, ub \in UBOutcomes : Leave(t, ub)

SpecThreads == Init /\ [][NextThreads]_vars

(***************************************************************************)
(* The activation of pending schedules in update_last_irreversible_block,  *)
(* on stores whose pending_active_producers holds schedules of different   *)
(* versions at ascending block numbers.                                    *)
(***************************************************************************)
ScheduleStores ==
  {[GenesisDb EXCEPT
      !.pending_active_producers =
         [i \in 1..Len(q) |->
            [first |-> q[i],
             second |-> [GenesisSchedule EXCEPT !.version = i]]]] :
     q \in {q \in UNION {[1..n -> 1..MaxActivationBlock] :
                           n \in 0..MaxPendingSchedules} :
              \A i \in 1..(Len(q) - 1) : q[i] < q[i + 1]}}

InitSchedule ==
  /\ db \in ScheduleStores
  /\ undo_stack = <<>>
  /\ revision = 0
  /\ fork_db = EmptyForkDb
  /\ block_log = <<>>
  /\ pending_block = <<>>
  /\ pending_block_trace = <<>>
  /\ pending_cycle_trace = <<>>
  /\ pending_block_session = FALSE
  /\ pending_cycle = NewPendingCycle
  /\ currently_replaying_blocks = FALSE
  /\ _checkpoints = <<>>
  /\ write_lock = 0
  /\ running = [t \in Threads |-> NoCall]
  /\ auth_request = [trx |-> <<>>, provided_keys |-> {}]
  /\ stopped = "no"
  /\ ret = [op |-> "construct", exc |-> "none", info |-> NoInfo]
  /\ ops = 0

\* lines 1194-1212 for a new last irreversible block and a log head
ActivatePending(new_lib, last_block_on_disk) ==
  /\ ops = 0
  /\ ops' = 1
  /\ Effect("update_last_irreversible_block",
            ActivateNewSchedule(
              [State EXCEPT !.info.result = <<new_lib, last_block_on_disk>>],
              last_block_on_disk, new_lib))
  /\ UNCHANGED <<write_lock, running, auth_request>>

NextSchedule ==
  \E new_lib \in 0..(MaxActivationBlock + 1),
     last_block_on_disk \in 0..(MaxActivationBlock + 1) :
    ActivatePending(new_lib, last_block_on_disk)

SpecSchedule == InitSchedule /\ [][NextSchedule]_vars

(***************************************************************************)
(* Blocks at the start of a round while the producer votes change.  The    *)
(* votes are changed by contract actions, which are not part of the        *)
(* controller: ChangeVotes puts the vote index in another order.           *)
(***************************************************************************)
VoteOrders ==
  {o \in [1..ProducerCount -> Producers] :
     \A i, j \in 1..ProducerCount : i # j => o[i] # o[j]}

ChangeVotes(o) ==
  /\ stopped = "no"
  /\ ops < MaxOps
  /\ pending_block = <<>>
  /\ o # db.producers_by_vote
  /\ db' = [db EXCEPT !.producers_by_vote = o]
  /\ ops' = ops + 1
  /\ ret' = [op |-> "set_producer_votes", exc |-> "none", info |-> NoInfo]
  /\ UNCHANGED <<undo_stack, revision, fork_db, block_log, pending_block,
                 pending_block_trace, pending_cycle_trace,
                 pending_block_session, pending_cycle,
                 currently_replaying_blocks, stopped, write_lock, running,
                 auth_request,
                 _checkpoints>>

\* what a pushed block carries as new_producers: nothing, the schedule this
\* node computes, or the schedule of a node that sees other votes
NewProducerChoices ==
  {<<>>, <<_calculate_producer_schedule(State)>>} \cup
  {<<_calculate_producer_schedule(
       [State EXCEPT !.db.producers_by_vote = o])>> :
     o \in VoteOrders \ {db.producers_by_vote}}

RoundPush(d, np) ==
  /\ stopped = "no"
  /\ Outcome("push_block",
             push_block(State,
               [NetBlock(db.head_block_id,
                         [d |-> d, scheduled |-> TRUE, body |-> "empty",
                          tamper |-> "none"])
                  EXCEPT !.new_producers = np],
               NoSkip))

RoundGenerate(d, ub) ==
  /\ stopped = "no"
  /\ Outcome("generate_block",
             generate_block(State, db.time + d,
                            get_scheduled_producer(State, d),
                            get_scheduled_producer(State, d), NoSkip, ub))

NextRound ==
  \/ \E o \in VoteOrders : ChangeVotes(o)
  \/ \E d \in 1..MaxGap, np \in NewProducerChoices : RoundPush(d, np)
  \/ \E d \in 1..MaxGap, ub \in UBOutcomes : RoundGenerate(d, ub)

SpecRound == Init /\ [][NextRound]_vars

(***************************************************************************)
(* Checkpoints: add_checkpoints is called between pushes of blocks.  A     *)
(* checkpoint names the null id, a block a peer can build on the genesis   *)
(* state or on the head, at any block number up to MaxCheckpointNum.       *)
(***************************************************************************)
CheckpointIds ==
  {NullId} \cup
  {NetBlock(p, [d |-> d, scheduled |-> TRUE, body |-> "empty",
                tamper |-> "none"]) :
     p \in {NullId, db.head_block_id}, d \in 1..MaxGap}

AddCheckpoints(n, id) ==
  /\ stopped = "no"
  /\ Outcome("add_checkpoints", add_checkpoints(State, [k \in {n} |-> id]))

NextCheckpoints ==
  \/ \E n \in 1..MaxCheckpointNum, id \in CheckpointIds : AddCheckpoints(n, id)
  \/ \E parent \in Parents, v \in NetVariants : PushBlock(parent, v, NoSkip)

SpecCheckpoints == Init /\ [][NextCheckpoints]_vars

(***************************************************************************)
(* The loops of __apply_block over the summary of a block, on block bodies *)
(* with two transactions (of alice and of bob): one cycle of several       *)
(* shards, two cycles, or two regions with any region ids; receipts are    *)
(* executed or soft_fail and input_transactions may lack a transaction.    *)
(***************************************************************************)
ApplyBodies ==
  LET t1    == TrxAt(GoodTrx, 0)
      t2    == TrxAt([GoodTrx EXCEPT !.kind = "bob", !.actor = "bob",
                                     !.write_scope = {"bob"}], 0)
      rcpts == {[id |-> t1.id, status |-> "executed"],
                [id |-> t2.id, status |-> "executed"],
                [id |-> t1.id, status |-> "soft_fail"]}
      shards(n) == UNION {[1..k -> rcpts] : k \in 0..n}
      cycles == UNION {[1..k -> shards(MaxReceipts)] : k \in 1..MaxShards}
      one    == {<<x>> : x \in shards(1)}
      summaries ==
        {<<[region |-> 0, cycles_summary |-> <<c>>]>> : c \in cycles}
        \cup {<<[region |-> 0, cycles_summary |-> <<c, d>>]>> :
                 c \in one, d \in one}
        \cup {<<[region |-> i, cycles_summary |-> <<c>>],
                [region |-> j, cycles_summary |-> <<d>>]>> :
                 i \in 0..1, j \in 0..1, c \in one, d \in one}
  IN [regions : summaries, input_transactions : {<<t1, t2>>, <<t2>>, <<>>}]

InitApply ==
  /\ db = GenesisDb
  /\ undo_stack = <<>>
  /\ revision = 0
  /\ fork_db = EmptyForkDb
  /\ block_log = <<>>
  /\ pending_block = <<>>
  /\ pending_block_trace = <<>>
  /\ pending_cycle_trace = <<>>
  /\ pending_block_session = FALSE
  /\ pending_cycle = NewPendingCycle
  /\ currently_replaying_blocks = FALSE
  /\ _checkpoints = <<>>
  /\ write_lock = 0
  /\ running = [t \in Threads |-> NoCall]
  /\ auth_request = [trx |-> <<>>, provided_keys |-> {}]
  /\ stopped = "no"
  /\ ret \in {[op |-> "construct", exc |-> "none",
                info |-> [NoInfo EXCEPT !.block = b]] : b \in ApplyBodies}
  /\ ops = 0

\* lines 547-593 of __apply_block inside the session of _push_block; the
\* block trace it builds is kept in the result
ApplySummary ==
  LET b == ret.info.block
  IN /\ ops = 0
     /\ ops' = 1
     /\ Effect("__apply_block",
          EndSession(
            Bind(Bind(start_undo_session(
                        [State EXCEPT !.info.block = b,
                                      !.info.result = <<BlockTraceOf(b)>>]),
                   LAMBDA t : Check(t, RegionsSorted(b), "assert")),
                   LAMBDA t : ApplyReceipts(t, b, ReceiptsOf(b)))))
     /\ UNCHANGED <<write_lock, running, auth_request>>

NextApply == ApplySummary

SpecApply == InitApply /\ [][NextApply]_vars

(***************************************************************************)
(* check_authorization, over a store with the permissions of two accounts: *)
(* alice has owner <- active <- publish and bob has owner <- active;       *)
(* alice@publish needs its own key together with bob@active.               *)
(***************************************************************************)
MaxAuthorityDepth == 2

Level(actor, permission) == [actor |-> actor, permission |-> permission]

PermissionObjects ==
  {[owner |-> "alice", name |-> "owner", parent |-> "",
    auth |-> [threshold |-> 1, keys |-> {[key |-> "K_alice_owner", weight |-> 1]},
              accounts |-> {}]],
   [owner |-> "alice", name |-> "active", parent |-> "owner",
    auth |-> [threshold |-> 1, keys |-> {[key |-> "K_alice_active", weight |-> 1]},
              accounts |-> {}]],
   [owner |-> "alice", name |-> "publish", parent |-> "active",
    auth |-> [threshold |-> 2, keys |-> {[key |-> "K_alice_publish", weight |-> 1]},
              accounts |-> {[permission |-> Level("bob", "active"),
                             weight |-> 1]}]],
   [owner |-> "bob", name |-> "owner", parent |-> "",
    auth |-> [threshold |-> 1, keys |-> {[key |-> "K_bob_owner", weight |-> 1]},
              accounts |-> {}]],
   [owner |-> "bob", name |-> "active", parent |-> "owner",
    auth |-> [threshold |-> 1, keys |-> {[key |-> "K_bob_active", weight |-> 1]},
              accounts |-> {}]]}

get_permission(level) ==
  CHOOSE p \in PermissionObjects :
    p.owner = level.actor /\ p.name = level.permission

\* variant: the contract-wide link is looked up before the link of the
\* action
lookup_minimum_permission_WideFirst(authorizer_account, scope, act_name) ==
  LET find(message_type) ==
        {l \in db.permission_links : /\ l.account = authorizer_account
                                     /\ l.code = scope
                                     /\ l.message_type = message_type}
      wide == find("")
      link == IF wide # {} THEN wide ELSE find(act_name)
  IN get_permission(Level(authorizer_account,
       IF link # {} THEN (CHOOSE l \in link : TRUE).required_permission
       ELSE "active"))

lookup_minimum_permission(authorizer_account, scope, act_name) ==
  LET find(message_type) ==
        {l \in db.permission_links : /\ l.account = authorizer_account
                                     /\ l.code = scope
                                     /\ l.message_type = message_type}
      exact == find(act_name)
      link  == IF exact # {} THEN exact ELSE find("")
  IN get_permission(Level(authorizer_account,
       IF link # {} THEN (CHOOSE l \in link : TRUE).required_permission
       ELSE "active"))

\* the permissions above p in its account's tree
RECURSIVE Ancestors(_)
Ancestors(p) ==
  IF p.parent = "" THEN {}
  ELSE LET up == get_permission(Level(p.owner, p.parent))
       IN {up} \cup Ancestors(up)

\* permission_object::satisfies: p is other or one of its ancestors
satisfies(p, other) ==
  p.owner = other.owner /\ (p = other \/ p \in Ancestors(other))

RECURSIVE TotalWeight(_)
TotalWeight(entries) ==
  IF entries = {} THEN 0
  ELSE LET e == CHOOSE x \in entries : TRUE
       IN e.weight + TotalWeight(entries \ {e})

\* the authority checker: the weight of the provided keys of the authority
\* plus that of its satisfied account levels reaches the threshold
RECURSIVE satisfied(_, _, _)
satisfied(level, provided_keys, depth) ==
  IF depth < 0 THEN FALSE
  ELSE LET auth == get_permission(level).auth
           keys == {k \in auth.keys : k.key \in provided_keys}
           subs == {a \in auth.accounts :
                     satisfied(a.permission, provided_keys, depth - 1)}
       IN TotalWeight(keys) + TotalWeight(subs) >= auth.threshold

\* the keys the checker records as used for a satisfied level
RECURSIVE used_keys(_, _, _)
used_keys(level, provided_keys, depth) ==
  IF depth < 0 THEN {}
  ELSE LET auth == get_permission(level).auth
           subs == {a \in auth.accounts :
                     satisfied(a.permission, provided_keys, depth - 1)}
       IN {k.key : k \in {x \in auth.keys : x.key \in provided_keys}}
            \cup UNION {used_keys(a.permission, provided_keys, depth - 1) :
                          a \in subs}

\* the declared authorizations in the order the two loops visit them
RECURSIVE DeclaredAuths(_)
DeclaredAuths(actions) ==
  IF actions = <<>> THEN <<>>
  ELSE [i \in 1..Len(Head(actions).authorization) |->
          [declared_auth |-> Head(actions).authorization[i],
           scope |-> Head(actions).scope, name |-> Head(actions).name]]
       \o DeclaredAuths(Tail(actions))

RECURSIVE CheckDeclared(_, _, _, _, _)
CheckDeclared(decls, provided_keys, allow_unused_signatures, skip, used) ==
  IF decls = <<>>
  THEN IF /\ ~allow_unused_signatures
          /\ ~skip.skip_transaction_signatures
          /\ ~(provided_keys \subseteq used)
       THEN "tx_irrelevant_sig" ELSE "none"
  ELSE LET d == Head(decls)
           min_permission ==
             lookup_minimum_permission(d.declared_auth.actor, d.scope, d.name)
       IN IF /\ ~skip.skip_authority_check
             /\ ~satisfies(get_permission(d.declared_auth), min_permission)
          THEN "tx_irrelevant_auth"
          ELSE IF /\ ~skip.skip_transaction_signatures
                  /\ ~satisfied(d.declared_auth, provided_keys,
                                MaxAuthorityDepth)
          THEN "tx_missing_sigs"
          ELSE CheckDeclared(Tail(decls), provided_keys,
                 allow_unused_signatures, skip,
                 IF skip.skip_transaction_signatures THEN used
                 ELSE used \cup used_keys(d.declared_auth, provided_keys,
                                          MaxAuthorityDepth))

\* variant: unused signatures are never looked at
check_authorization_AnyKeys(trx, provided_keys, allow_unused_signatures, skip) ==
  CheckDeclared(DeclaredAuths(trx.actions), provided_keys, TRUE, skip, {})

\* the exception check_authorization leaves with, "none" when it returns
check_authorization(trx, provided_keys, allow_unused_signatures, skip) ==
  CheckDeclared(DeclaredAuths(trx.actions), provided_keys,
                allow_unused_signatures, skip, {})

SeqsUpTo(S, n) == UNION {[1..k -> S] : k \in 1..n}

\* transactions of one to MaxActions actions, each on one of three
\* (scope, action) pairs and declaring one to MaxAuths authorizations, with
\* up to MaxKeys provided keys
AuthRequests ==
  LET levels  == {Level("alice", "owner"), Level("alice", "active"),
                  Level("alice", "publish"), Level("bob", "active")}
      names   == {<<"currency", "transfer">>, <<"currency", "issue">>,
                  <<"exchange", "buy">>}
      actions == {[scope |-> sn[1], name |-> sn[2], authorization |-> a] :
                    sn \in names, a \in SeqsUpTo(levels, MaxAuths)}
      keys    == {"K_alice_owner", "K_alice_active", "K_alice_publish",
                  "K_bob_active", "K_stranger"}
  IN [trx : {[actions |-> a] : a \in SeqsUpTo(actions, MaxActions)},
      provided_keys : {k \in SUBSET keys : Cardinality(k) <= MaxKeys}]

InitAuth ==
  /\ db = GenesisDb
  /\ undo_stack = <<>>
  /\ revision = 0
  /\ fork_db = EmptyForkDb
  /\ block_log = <<>>
  /\ pending_block = <<>>
  /\ pending_block_trace = <<>>
  /\ pending_cycle_trace = <<>>
  /\ pending_block_session = FALSE
  /\ pending_cycle = NewPendingCycle
  /\ currently_replaying_blocks = FALSE
  /\ _checkpoints = <<>>
  /\ write_lock = 0
  /\ running = [t \in Threads |-> NoCall]
  /\ auth_request \in AuthRequests
  /\ stopped = "no"
  /\ ret = [op |-> "construct", exc |-> "none", info |-> NoInfo]
  /\ ops = 0

CheckAuthorization(allow_unused_signatures, skip) ==
  /\ ops = 0
  /\ ops' = 1
  /\ ret' = [op |-> "check_authorization",
             exc |-> check_authorization(auth_request.trx,
                       auth_request.provided_keys, allow_unused_signatures,
                       skip),
             info |-> [NoInfo EXCEPT
                         !.result = <<[allow_unused_signatures |->
                                         allow_unused_signatures,
                                       skip |-> skip]>>]]
  /\ UNCHANGED <<db, undo_stack, revision, fork_db, block_log, pending_block,
                 pending_block_trace, pending_cycle_trace,
                 pending_block_session, pending_cycle,
                 currently_replaying_blocks, stopped, write_lock, running,
                 auth_request,
                 _checkpoints>>

NextAuth ==
  \E allow_unused_signatures \in BOOLEAN,
     skip \in [skip_authority_check : BOOLEAN,
               skip_transaction_signatures : BOOLEAN] :
    CheckAuthorization(allow_unused_signatures, skip)

SpecAuth == InitAuth /\ [][NextAuth]_vars

(***************************************************************************)
(* lookup_minimum_permission on its own: the store holds any table of      *)
(* links of alice, at most one per (scope, action), for two scopes and the *)
(* actions "transfer" and "" (contract-wide); the lookup is made for both  *)
(* accounts, both scopes and three action names.                           *)
(***************************************************************************)
LinkTables ==
  LET keys == {"currency", "exchange"} \X {"transfer", ""}
  IN UNION {{{[account |-> "alice", code |-> k[1], message_type |-> k[2],
               required_permission |-> f[k]] : k \in K} :
              f \in [K -> {"owner", "publish"}]} : K \in SUBSET keys}

InitLinks ==
  /\ db \in {[GenesisDb EXCEPT !.permission_links = t] : t \in LinkTables}
  /\ undo_stack = <<>>
  /\ revision = 0
  /\ fork_db = EmptyForkDb
  /\ block_log = <<>>
  /\ pending_block = <<>>
  /\ pending_block_trace = <<>>
  /\ pending_cycle_trace = <<>>
  /\ pending_block_session = FALSE
  /\ pending_cycle = NewPendingCycle
  /\ currently_replaying_blocks = FALSE
  /\ _checkpoints = <<>>
  /\ write_lock = 0
  /\ running = [t \in Threads |-> NoCall]
  /\ auth_request = [trx |-> <<>>, provided_keys |-> {}]
  /\ stopped = "no"
  /\ ret = [op |-> "construct", exc |-> "none", info |-> NoInfo]
  /\ ops = 0

LookupMinimumPermission(authorizer_account, scope, act_name) ==
  /\ ops = 0
  /\ ops' = 1
  /\ ret' = [op |-> "lookup_minimum_permission", exc |-> "none",
             info |-> [NoInfo EXCEPT !.result =
                         <<authorizer_account, scope, act_name,
                           lookup_minimum_permission(authorizer_account,
                                                     scope, act_name)>>]]
  /\ UNCHANGED <<db, undo_stack, revision, fork_db, block_log, pending_block,
                 pending_block_trace, pending_cycle_trace,
                 pending_block_session, pending_cycle,
                 currently_replaying_blocks, stopped, write_lock, running,
                 auth_request, _checkpoints>>

NextLinks ==
  \E a \in Accounts, scope \in {"currency", "exchange"},
     act \in {"transfer", "issue", ""} : LookupMinimumPermission(a, scope, act)

SpecLinks == InitLinks /\ [][NextLinks]_vars

(***************************************************************************)
(* Properties                                                              *)
(***************************************************************************)
\* the last operation returned to its caller, normally or with an exception
Returned == stopped = "no"

\* the store as push_block finds it once the pending block is dropped
StoreBeforePush == clear_pending(State).db

\* the blocks from the genesis to block `id', as a set
RECURSIVE ChainOf(_)
ChainOf(id) == IF id = NullId THEN {} ELSE {id} \cup ChainOf(id.previous)

\* blks is a chain of blocks that starts on `base': each one names the one
\* before it as its previous block and is later than it
LinkedFrom(base, blks) ==
  \A i \in 1..Len(blks) :
    LET parent == IF i = 1 THEN base ELSE blks[i - 1]
    IN /\ blks[i].previous = parent
       /\ blks[i].timestamp > TimeOf(parent)

FailedSwitchReturned(r) ==
  r.op = "push_block" /\ r.info.path = "switch" /\ r.info.failed > 0

\* C1: the value of last_irreversible_block_num() never decreases from one
\* state to a later one, whatever operation is performed
C1_LibNeverDecreases ==
  [][ret'.op # "construct" =>
       db'.last_irreversible_block_num >= db.last_irreversible_block_num]_vars

\* C2: when a block of the new branch throws during a fork switch, the store
\* is, when push_block returns, what it was before the call
C2_FailedSwitchRestoresStore ==
  [][(FailedSwitchReturned(ret') /\ Returned') => db' = StoreBeforePush]_vars

\* C3: a push_block whose block makes a branch that is not built on the head
\* higher than the head, and whose branch applies, leaves the head at the new
\* tip, after the pops to an ancestor of the old head and the application of
\* the branch from there in parent-to-child order, and returns true;
\* push_block returns true in no other case
C3_SwitchReturnsTrue ==
  [][(ret'.op = "push_block" /\ Returned') =>
       LET i == ret'.info
           switched == /\ i.path # "direct"
                       /\ i.new_head.previous # db.head_block_id
                       /\ i.new_head.num > db.head_block_number
                       /\ ret'.exc = "none"
       IN /\ (i.result = <<TRUE>>) <=> switched
          /\ switched =>
               /\ db'.head_block_id = i.new_head
               /\ i.base \in ChainOf(db.head_block_id) \cup {NullId}
               /\ i.applied # <<>>
               /\ LinkedFrom(i.base, i.applied)
               /\ Last(i.applied) = i.new_head]_vars

\* a fork switch between two branches succeeded
C3_Witness ==
  /\ Returned /\ ret.op = "push_block" /\ ret.info.result = <<TRUE>>
  /\ ret.info.second # <<>>
  /\ ret.info.second[1].data \notin ChainOf(ret.info.new_head)
  /\ Len(ret.info.applied) >= 2
  /\ db.head_block_id = ret.info.new_head

\* C4: after push_block, generate_block or pop_block returns, normally or
\* with an error, head_block_id() is the id of the fork database's head
C4_HeadIsForkHead ==
  (Returned /\ ret.op \in {"push_block", "generate_block", "pop_block"})
    => db.head_block_id = fork_db.head.data

\* C5: the head is never below the last irreversible block, and every block
\* of the block log is the block of the head's chain at its height
C5_IrreversibleStays ==
  /\ db.head_block_number >= db.last_irreversible_block_num
  /\ \A n \in 1..Len(block_log) :
       /\ block_log[n].num = n
       /\ block_log[n] \in ChainOf(db.head_block_id)

\* C6: after a failed fork switch the head is the tip of the old branch, the
\* block that threw and the later blocks of the new branch are gone from the
\* fork database, and the blocks of the old branch are still in it
C6_FailedSwitchForkDb ==
  (FailedSwitchReturned(ret) /\ Returned) =>
    LET i == ret.info
    IN /\ db.head_block_id = i.second[1].data
       /\ \A j \in 1..(Len(i.first) + 1 - i.failed) :
            ~is_known_block(fork_db, i.first[j].data)
       /\ \A j \in 1..Len(i.second) : is_known_block(fork_db, i.second[j].data)

C9_RevisionIsHeadNum ==
  (Returned /\ pending_block = <<>>) => revision = db.head_block_number

\* C10: a block is accepted only on the head it names as its previous block
\* and only when it is later than that head: the step that accepts one block
\* (push_block that extends the head, generate_block), the blocks a fork
\* switch applies after its pops, and the blocks a replay applies; so every
\* block of the chain of the head is later than the block before it
C10_AcceptedBlocksLink ==
  [][Returned' =>
       LET i == ret'.info
           one == \/ ret'.op = "generate_block"
                  \/ ret'.op = "push_block" /\ i.path \in {"extend", "direct"}
       IN /\ \A b \in ChainOf(db'.head_block_id) :
               b.timestamp > TimeOf(b.previous)
          /\ (one /\ db'.head_block_id # db.head_block_id) =>
               /\ db'.head_block_id.previous = db.head_block_id
               /\ db'.head_block_id.timestamp > StoreBeforePush.time
          /\ ret'.op = "push_block" => LinkedFrom(i.base, i.applied)
          /\ (ret'.op = "replay" /\ db'.head_block_id # db.head_block_id) =>
               db.head_block_id \in ChainOf(db'.head_block_id) \cup {NullId}]_vars

\* blocks were accepted one after the other, under both sets of skip flags
C10_Witness ==
  /\ Returned /\ ret.exc = "none"
  /\ ret.op \in {"push_block", "generate_block"}
  /\ db.head_block_number >= 2
  /\ db.head_block_id.producer = db.head_block_id.previous.producer

\* the state of the controller outside the record of the last call
ctl == <<db, undo_stack, revision, fork_db, block_log, pending_block,
         pending_block_trace, pending_cycle_trace, pending_block_session,
         pending_cycle, currently_replaying_blocks>>

\* the transactions the pending block has accepted
PendingInputs ==
  IF pending_block = <<>> THEN <<>> ELSE pending_block[1].input_transactions

\* C11: when a transaction that the pending block already holds is pushed
\* again, push_transaction fails with tx_duplicate and the controller is in
\* the state the first push left.
C11_DuplicateRejected ==
  [][(/\ ret'.op = "push_transaction" /\ Returned'
      /\ ret'.info.trx[1] \in Range(PendingInputs))
     => /\ ret'.exc = "tx_duplicate"
        /\ ctl' = ctl]_vars

\* C12: is_known_transaction(T.id) is true once push_transaction(T) has
\* returned normally, and for every transaction of a block of the chain of
\* the head.
C12_KnownAfterPush ==
  Returned =>
    /\ (ret.op = "push_transaction" /\ ret.exc = "none")
          => is_known_transaction(State, ret.info.trx[1].id)
    /\ \A b \in ChainOf(db.head_block_id) :
          \A T \in Range(b.input_transactions) :
            is_known_transaction(State, T.id)

\* the receipts of the pending block, each with its region, cycle and shard
PendingReceipts ==
  IF pending_block = <<>> THEN <<>> ELSE ReceiptsOf(pending_block[1])

C14_StaleRejected ==
  [][(/\ ret'.op = "push_transaction" /\ Returned'
      /\ \/ validate_expiration(State, ret'.info.trx[1]) # "none"
         \/ validate_tapos(State, NoSkip, ret'.info.trx[1]) # "none")
     => /\ ret'.exc = "transaction"
        /\ ret'.info.trx[1] \notin Range(PendingInputs')]_vars

\* the shards of the pending block: per cycle, per shard, the receipts
PendingCycles ==
  IF pending_block = <<>> THEN <<>>
  ELSE pending_block[1].regions[1].cycles_summary

\* the receipts shard h of cycle c held before the step
OldShard(c, h) ==
  IF c <= Len(PendingCycles) /\ h <= Len(PendingCycles[c])
  THEN PendingCycles[c][h] ELSE <<>>

IsPrefix(a, b) == Len(a) <= Len(b) /\ SubSeq(b, 1, Len(a)) = a

\* C15: a push_transaction that returns normally appends its transaction to
\* input_transactions and its receipt to the end of one shard, and leaves
\* every other shard as it was; any other step that keeps the pending block
\* keeps input_transactions and the order of the receipts of every shard.
\* So receipts are in push order within a shard, and input_transactions is
\* in push order.
C15_ReceiptsInPushOrder ==
  [][(Returned' /\ pending_block' # <<>>) =>
       LET cs1 == PendingCycles'
           pos == UNION {{<<c, h>> : h \in 1..Len(cs1[c])} : c \in 1..Len(cs1)}
       IN IF ret'.op = "push_transaction" /\ ret'.exc = "none"
          THEN /\ PendingInputs' = Append(PendingInputs, ret'.info.trx[1])
               /\ \E q \in pos :
                    /\ cs1[q[1]][q[2]] =
                         Append(OldShard(q[1], q[2]),
                                [id |-> ret'.info.trx[1].id,
                                 status |-> "executed"])
                    /\ \A r \in pos \ {q} :
                         cs1[r[1]][r[2]] = OldShard(r[1], r[2])
          ELSE /\ PendingInputs' = PendingInputs
               /\ \A r \in pos :
                    IsPrefix(OldShard(r[1], r[2]), cs1[r[1]][r[2]])]_vars

\* two transactions with different ids were accepted into one shard
C15_Witness ==
  /\ Returned /\ ret.op = "push_transaction" /\ ret.exc = "none"
  /\ Len(PendingInputs) = 2
  /\ PendingInputs[1].id # PendingInputs[2].id
  /\ \E c \in 1..Len(PendingCycles) : \E h \in 1..Len(PendingCycles[c]) :
        /\ Len(PendingCycles[c][h]) = 2
        /\ PendingCycles[c][h][1].id = PendingInputs[1].id
        /\ PendingCycles[c][h][2].id = PendingInputs[2].id

\* C16: when generate_block returns a block, the block's previous is the
\* head id and its number the head number plus one as they were before the
\* call; afterwards the block is the head, no pending block, session, block
\* trace or cycle trace is left, the block holds the transactions pushed
\* since the last block, the store has one revision more than before the
\* pending block was started, the session of that revision starts from the
\* store without the pending transactions, and (skip_fork_db not set) the
\* block is in the fork database.
C16_GenerateCommits ==
  [][(ret'.op = "generate_block" /\ Returned' /\ ret'.exc = "none") =>
       LET b == ret'.info.result[1]
       IN /\ b.previous = db.head_block_id
          /\ b.num = db.head_block_number + 1
          /\ db'.head_block_id = b
          /\ pending_block' = <<>> /\ ~pending_block_session'
          /\ pending_block_trace' = <<>> /\ pending_cycle_trace' = <<>>
          /\ b.input_transactions = PendingInputs
          /\ revision' =
               revision - (IF pending_block_session THEN 1 ELSE 0) + 1
          /\ undo_stack' # <<>> => Last(undo_stack') = StoreBeforePush
          /\ is_known_block(fork_db', b)]_vars

\* the slot and the producer scheduled for it, for the arguments of the last
\* generate_block
GenSlot == get_slot_at_time(State, ret.info.gen[1].when)

GenRefused ==
  IF GenSlot = 0 THEN TRUE
  ELSE get_scheduled_producer(State, GenSlot) # ret.info.gen[1].producer

\* C17: a generate_block whose time is in slot 0, or whose producer is not
\* the one scheduled for the slot, throws and leaves the controller as it
\* was: the pending block, the head and the store are those before the call.
C17_GenerateRefused ==
  [][(/\ ret'.op = "generate_block" /\ Returned'
      /\ LET slot == get_slot_at_time(State, ret'.info.gen[1].when)
         IN IF slot = 0 THEN TRUE
            ELSE get_scheduled_producer(State, slot)
                   # ret'.info.gen[1].producer)
     => /\ ret'.exc # "none"
        /\ ctl' = ctl]_vars

\* a call for a producer whose slot it is not, on a chain with a block
C17_Witness ==
  /\ Returned /\ ret.op = "generate_block" /\ ret.exc = "assert"
  /\ GenSlot > 0 /\ GenRefused
  /\ pending_block = <<>> /\ db.head_block_number >= 1

\* C18: after push_transaction, generate_block, pop_block, clear_pending or
\* push_block has returned, normally or with an exception, the pending
\* block, its session, its block trace and its cycle trace are all present
\* or all absent.
C18_PendingAllOrNone ==
  (/\ Returned
   /\ ret.op \in {"push_transaction", "generate_block", "pop_block",
                  "clear_pending", "push_block"})
  => /\ (pending_block # <<>>) <=> pending_block_session
     /\ (pending_block # <<>>) <=> (pending_block_trace # <<>>)
     /\ (pending_block # <<>>) <=> (pending_cycle_trace # <<>>)

\* C19: pop_block on a chain without a block throws pop_empty_chain and
\* leaves the controller as it was; and when push_block has applied a block
\* on the head, a pop_block that follows returns normally and the store,
\* with head_block_num and head_block_id, is the store push_block started
\* from.
C19_PopUndoesPush ==
  [][Returned' =>
       /\ (ret'.op = "pop_block" /\ db.head_block_number = 0)
            => (ret'.exc = "pop_empty_chain" /\ ctl' = ctl)
       /\ (/\ ret'.op = "push_block" /\ ret'.exc = "none"
           /\ ret'.info.path \in {"extend", "direct"})
            => /\ pop_block(State)'.exc = "none"
               /\ pop_block(State)'.db = StoreBeforePush]_vars

\* the step applied one block on the head and the call returned normally
AcceptedOne ==
  /\ Returned' /\ ret'.exc = "none"
  /\ ret'.op \in {"push_block", "generate_block"}
  /\ db'.head_block_id # NullId
  /\ db'.head_block_id.previous = db.head_block_id

RootsMatch(b) ==
  /\ b.transaction_mroot = calculate_transaction_merkle_root(b)
  /\ b.action_mroot = calculate_action_merkle_root(BlockTraceOf(b))

OffRound(b) == b.new_producers # <<>> /\ b.num % BlocksPerRound # 0

Confirmed(d) ==
  [i \in 1..Len(d.active_producers.producers) |->
     d.producers[d.active_producers.producers[i]].last_confirmed_block_num]

Ascending(vals) ==
  CHOOSE a \in [1..Len(vals) -> Range(vals)] :
    /\ \A i \in 1..(Len(vals) - 1) : a[i] <= a[i + 1]
    /\ \A v \in Range(vals) :
         Cardinality({i \in 1..Len(vals) : a[i] = v})
           = Cardinality({i \in 1..Len(vals) : vals[i] = v})

\* (100 - irreversible_threshold_percent) * L / 100
ThresholdRank(d) ==
  ((Percent100 - IrreversibleThresholdPercent)
     * Len(d.active_producers.producers)) \div Percent100

\* the call stored `v' exactly when it is greater than the stored value
StoredWhenGreater(v) ==
  /\ db'.last_irreversible_block_num =
       IF v > db.last_irreversible_block_num
       THEN v ELSE db.last_irreversible_block_num
  /\ \A f \in DOMAIN db : f # "last_irreversible_block_num" => db'[f] = db[f]

\* C23 as stated: with k = (100 - irreversible_threshold_percent) * L / 100
\* the k-th smallest last_confirmed_block_num of the L active producers (the
\* 7th smallest of 21), k >= 1, becomes last_irreversible_block_num exactly
\* when it is greater than the stored value
C23_KthSmallestStored ==
  [][(ret'.op = "update_last_irreversible_block" /\ ThresholdRank(db) >= 1)
       => StoredWhenGreater(Ascending(Confirmed(db))[ThresholdRank(db)])]_vars

\* C23 amended: the value after the k smallest, that is the (k + 1)-th
\* smallest (the 8th smallest of 21), becomes last_irreversible_block_num
\* exactly when it is greater than the stored value; the rank of 21
\* producers is 7
C23_AfterKSmallestStored ==
  [][ret'.op = "update_last_irreversible_block"
       => /\ StoredWhenGreater(Ascending(Confirmed(db))[ThresholdRank(db) + 1])
          /\ ((Percent100 - IrreversibleThresholdPercent) * 21)
               \div Percent100 = 7]_vars

\* three producers, k = 1: the second smallest value was stored and the
\* smallest is below it
C23_Witness ==
  /\ ret.op = "update_last_irreversible_block"
  /\ Len(db.active_producers.producers) = 3
  /\ ret.info.result[1] < db.last_irreversible_block_num
  /\ Ascending(Confirmed(db))[2] = db.last_irreversible_block_num
  /\ Ascending(Confirmed(db))[1] < db.last_irreversible_block_num

\* the step appended the blocks old_head + 1 .. new_head to the block log
Appended ==
  /\ Len(block_log') > Len(block_log)
  /\ SubSeq(block_log', 1, Len(block_log)) = block_log

\* C24: a step that advances last_irreversible_block_num leaves the block
\* log ending at the new value and no undo record of a revision up to it;
\* a step that changes the block log appends to it, and each block it
\* appends has the number of its place in the log, the number of the block
\* before it plus one, is the block of the current chain at that height and
\* is not above last_irreversible_block_num
C24_IrreversibleBlocksLogged ==
  [][(Returned' /\ ret'.op # "construct") =>
       /\ db'.last_irreversible_block_num > db.last_irreversible_block_num
            => /\ Len(block_log') = db'.last_irreversible_block_num
               /\ (undo_stack' = <<>>
                     \/ revision' - Len(undo_stack')
                          >= db'.last_irreversible_block_num)
       /\ block_log' # block_log
            => /\ Appended
               /\ \A n \in (Len(block_log) + 1)..Len(block_log') :
                    /\ block_log'[n].num = n
                    /\ block_log'[n] \in ChainOf(db'.head_block_id)
                    /\ n <= db'.last_irreversible_block_num]_vars

\* the step is a replay of a block log that holds blocks, called by the user
\* or by the constructor, and it returned normally
Replayed ==
  /\ Returned' /\ ret'.exc = "none" /\ block_log # <<>>
  /\ \/ ret'.op = "replay"
     \/ ret'.op = "construct" /\ ret'.info.path = "replay"

\* C25: when replay returns, the head is the last block of the block log,
\* the chain of the head is the block log from block 1 on, in order, the
\* revision of the store is head_block_num() and the block log is what it
\* was; _currently_replaying_blocks is false when replay returns and when
\* it throws
C25_ReplayRebuildsHead ==
  [][/\ Replayed =>
          /\ db'.head_block_id = Last(block_log)
          /\ db'.head_block_number = Last(block_log).num
          /\ \A n \in 1..Len(block_log) :
               /\ block_log[n].num = n
               /\ block_log[n] \in ChainOf(db'.head_block_id)
          /\ revision' = db'.head_block_number
          /\ block_log' = block_log
     /\ (Returned' /\ ret'.op \in {"replay", "construct"})
          => ~currently_replaying_blocks']_vars

\* the constructor replayed the block log on a new store
C25_Witness ==
  /\ Returned /\ ret.op = "construct" /\ ret.exc = "none"
  /\ ret.info.path = "replay"
  /\ Len(block_log) >= 1
  /\ db.head_block_id = Last(block_log)
  /\ revision = Len(block_log)

\* C26: a thread that is inside push_block, push_transaction,
\* generate_block, pop_block, clear_pending or replay holds the store's
\* write lock, and no two threads are inside one of them at a time
C26_EntryPointsSerialized ==
  /\ \A t \in Threads : running[t] # NoCall => write_lock = t
  /\ \A t, u \in Threads :
       (running[t] # NoCall /\ running[u] # NoCall) => t = u

AuthChecked == ret.op = "check_authorization"

AuthFlags == ret.info.result[1]

AuthDecls ==
  LET decls == DeclaredAuths(auth_request.trx.actions)
  IN {decls[i] : i \in 1..Len(decls)}

MeetsMinimum(d) ==
  satisfies(get_permission(d.declared_auth),
            lookup_minimum_permission(d.declared_auth.actor, d.scope, d.name))

KeysSatisfy(d) ==
  satisfied(d.declared_auth, auth_request.provided_keys, MaxAuthorityDepth)

AuthorityChecked ==
  AuthFlags.skip.skip_authority_check \/ \A d \in AuthDecls : MeetsMinimum(d)

SignaturesChecked ==
  \/ AuthFlags.skip.skip_transaction_signatures
  \/ \A d \in AuthDecls : KeysSatisfy(d)

AllKeysUsed ==
  auth_request.provided_keys \subseteq
    UNION {used_keys(d.declared_auth, auth_request.provided_keys,
                     MaxAuthorityDepth) : d \in AuthDecls}

\* one action that requires alice@active (no link for it), declared for
\* the given permission of alice, every check on
ActiveAction(permission, keys) ==
  /\ auth_request.trx.actions =
       <<[scope |-> "currency", name |-> "issue",
          authorization |-> <<Level("alice", permission)>>]>>
  /\ auth_request.provided_keys = keys
  /\ ~AuthFlags.skip.skip_authority_check
  /\ ~AuthFlags.skip.skip_transaction_signatures

AuthExamples ==
  /\ ActiveAction("owner", {"K_alice_owner"}) => ret.exc = "none"
  /\ \A permission \in {"owner", "active"} :
       ActiveAction(permission, {"K_stranger"}) => ret.exc = "tx_missing_sigs"

\* C27: check_authorization accepts a transaction only if every declared
\* permission satisfies the minimum permission of its action (else
\* tx_irrelevant_auth, unless skip_authority_check), the provided keys
\* satisfy every declared permission (else tx_missing_sigs, unless
\* skip_transaction_signatures) and every provided key was used (else
\* tx_irrelevant_sig, unless unused signatures are allowed); a key of
\* alice@owner authorizes an action that requires alice@active, and a
\* stranger's key alone fails with tx_missing_sigs
C27_AcceptedOnlyIfAuthorized ==
  AuthChecked =>
    /\ ret.exc \in {"none", "tx_irrelevant_auth", "tx_missing_sigs",
                     "tx_irrelevant_sig"}
    /\ ret.exc = "none" =>
         /\ AuthorityChecked
         /\ SignaturesChecked
         /\ AuthFlags.allow_unused_signatures \/ AllKeysUsed
    /\ ret.exc = "tx_irrelevant_auth" => ~AuthorityChecked
    /\ ret.exc = "tx_missing_sigs" => ~SignaturesChecked
    /\ ret.exc = "tx_irrelevant_sig" =>
         ~(AuthFlags.allow_unused_signatures \/ AllKeysUsed)
    /\ AuthExamples

\* C27 as amended: the same, where unused keys are refused unless unused
\* signatures are allowed or skip_transaction_signatures is set
C27_AcceptedOnlyIfAuthorizedOrSkipped ==
  AuthChecked =>
    /\ ret.exc \in {"none", "tx_irrelevant_auth", "tx_missing_sigs",
                     "tx_irrelevant_sig"}
    /\ ret.exc = "none" =>
         /\ AuthorityChecked
         /\ SignaturesChecked
         /\ \/ AuthFlags.allow_unused_signatures
            \/ AuthFlags.skip.skip_transaction_signatures
            \/ AllKeysUsed
    /\ ret.exc = "tx_irrelevant_auth" => ~AuthorityChecked
    /\ ret.exc = "tx_missing_sigs" => ~SignaturesChecked
    /\ ret.exc = "tx_irrelevant_sig" =>
         ~(\/ AuthFlags.allow_unused_signatures
           \/ AuthFlags.skip.skip_transaction_signatures
           \/ AllKeysUsed)
    /\ AuthExamples

\* the owner key accepted for the action that requires alice@active, with
\* unused signatures refused
C27_Witness ==
  /\ AuthChecked
  /\ ActiveAction("owner", {"K_alice_owner"})
  /\ ~AuthFlags.allow_unused_signatures
  /\ ret.exc = "none"

\* a push_transaction that returned normally for a transaction the pending
\* cycle had no place for
ConflictPushed ==
  /\ Returned' /\ ret'.op = "push_transaction" /\ ret'.exc = "none"
  /\ pending_block # <<>>
  /\ ScheduleShard(pending_cycle, ret'.info.trx[1]) = -1

\* C28: when the scheduler returns -1 during push_transaction the current
\* cycle is finalized (its trace is appended to the region trace), exactly
\* one new cycle is started, the transaction is scheduled again in it and
\* its receipt and trace are put in one shard of the new cycle; the
\* finalized cycle gets no receipt
C28_ConflictStartsNewCycle ==
  [][ConflictPushed =>
       LET trx == ret'.info.trx[1]
           n   == Len(PendingCycles)
       IN /\ pending_cycle_trace # <<>>
          /\ pending_block_trace'[1].cycle_traces =
               Append(pending_block_trace[1].cycle_traces,
                      pending_cycle_trace[1])
          /\ Len(PendingCycles') = n + 1
          /\ SubSeq(PendingCycles', 1, n) = PendingCycles
          /\ \E h \in 1..Len(PendingCycles'[n + 1]) :
               /\ PendingCycles'[n + 1] =
                    [i \in 1..Len(PendingCycles'[n + 1]) |->
                       IF i = h THEN <<[id |-> trx.id, status |-> "executed"]>>
                       ELSE <<>>]
               /\ pending_cycle_trace' =
                    <<[shard_traces |->
                         [i \in 1..Len(PendingCycles'[n + 1]) |->
                            IF i = h THEN <<TraceOf(trx, 0, n)>> ELSE <<>>]]>>
               /\ pending_cycle'.write_scope_to_shard =
                    {<<w, h - 1>> : w \in trx.write_scope}
               /\ pending_cycle'.read_scopes = trx.read_scope]_vars

\* the second transaction of the pending block went to a second cycle
C28_Witness ==
  /\ Returned /\ ret.op = "push_transaction" /\ ret.exc = "none"
  /\ Len(PendingCycles) = 2
  /\ Len(pending_block_trace[1].cycle_traces) = 1
  /\ PendingCycles[1] =
       << <<[id |-> PendingInputs[1].id, status |-> "executed"]>> >>
  /\ PendingCycles[2] =
       << <<[id |-> PendingInputs[2].id, status |-> "executed"]>> >>

\* C29: a push_transaction that fails leaves the scheduling state of the
\* pending cycle as it was: _pending_cycle is unchanged, or is that of a
\* new cycle when the push had to start the pending block
C29_FailedPushKeepsSchedule ==
  [][(Returned' /\ ret'.op = "push_transaction" /\ ret'.exc # "none") =>
       pending_cycle' =
         IF pending_block # <<>> THEN pending_cycle ELSE NewPendingCycle]_vars

\* the block trace _generate_block hands to _finalize_block: the pending
\* block trace after the pending cycle is finalized
GeneratedTrace ==
  LET s3 == IF pending_block = <<>> THEN _start_pending_block(State, "proceeds")
            ELSE State
  IN _finalize_pending_cycle(s3, "proceeds").pending_block_trace[1]

TracesFollowSummary ==
  pending_block # <<>> =>
    /\ pending_block_trace # <<>> /\ pending_cycle_trace # <<>>
    /\ Len(pending_cycle_trace[1].shard_traces) = Len(Last(PendingCycles))
    /\ Len(pending_block_trace[1].cycle_traces) = Len(PendingCycles) - 1

\* C30: in every state with a pending block the current cycle trace has as
\* many shard traces as the last cycle of the summary has shards and the
\* region trace has one finalized cycle trace for each cycle but the last;
\* the shard index under which push_transaction stores a receipt is within
\* both; the block produced by generate_block has one cycle trace for each
\* cycle of its cycles_summary
C30_TracesFollowSummary ==
  [][Returned' =>
       /\ TracesFollowSummary'
       /\ ret'.op = "push_transaction" => ret'.exc # "out_of_range"
       /\ (ret'.op = "generate_block" /\ ret'.exc = "none") =>
            Len(GeneratedTrace.cycle_traces) =
              Len(ret'.info.result[1].regions[1].cycles_summary)]_vars

\* C31: update_last_irreversible_block always returns: no operation is left
\* in the loop that erases due entries of pending_active_producers, and when
\* a block put on the head advances the last irreversible block the pending
\* entries that are not yet due stay pending
C31_IrreversibleUpdateTerminates ==
  [][/\ stopped' # "hang"
     /\ (/\ Returned' /\ ret'.exc = "none"
         /\ db'.head_block_id # NullId
         /\ db'.head_block_id.previous = db.head_block_id
         /\ db'.last_irreversible_block_num > db.last_irreversible_block_num)
          => \A i \in 1..Len(db.pending_active_producers) :
               db.pending_active_producers[i].first
                   >= db'.last_irreversible_block_num
                 => \E j \in 1..Len(db'.pending_active_producers) :
                      db'.pending_active_producers[j] =
                        db.pending_active_producers[i]]_vars

\* the pending entries that are due at new_lib
DueAt(new_lib) ==
  {i \in 1..Len(db.pending_active_producers) :
     db.pending_active_producers[i].first < new_lib}

\* C32: when the last irreversible block advances to new_lib,
\* active_producers becomes the schedule of the latest pending entry whose
\* activation block is below new_lib (it is unchanged when there is none)
\* and exactly the pending entries up to and including that one are erased
C32_LatestDueActivated ==
  [][(/\ ret'.op = "update_last_irreversible_block"
      /\ Len(ret'.info.result) = 2
      /\ ret'.info.result[1] > ret'.info.result[2]) =>
       LET pend == db.pending_active_producers
           due  == DueAt(ret'.info.result[1])
           k    == IF due = {} THEN 0
                   ELSE CHOOSE i \in due : \A j \in due : j <= i
       IN /\ stopped' = "no"
          /\ db'.active_producers =
               IF k = 0 THEN db.active_producers ELSE pend[k].second
          /\ db'.pending_active_producers =
               SubSeq(pend, k + 1, Len(pend))]_vars

\* the block put on the head by the step is at the start of a round
RoundStartBlock(b) ==
  /\ Returned' /\ ret'.exc = "none"
  /\ db'.head_block_id = b /\ b.previous = db.head_block_id
  /\ b.num % BlocksPerRound = 0

\* the latest schedule, pending or active, before the step
LatestSchedule ==
  IF db.pending_active_producers # <<>>
  THEN db.pending_active_producers[Len(db.pending_active_producers)].second
  ELSE db.active_producers

\* C33: at the start of a round generate_block sets new_producers exactly
\* when the producers in vote order differ from the latest schedule,
\* pending or active, and then to the schedule of those producers; a block
\* is accepted at the start of a round only if its new_producers, when
\* present, is the schedule this node computes, and is present whenever
\* that schedule differs from the latest one
C33_NewProducersIffChanged ==
  [][/\ (ret'.op = "generate_block" /\ RoundStartBlock(ret'.info.result[1]))
          => LET b == ret'.info.result[1]
             IN /\ b.new_producers # <<>>
                     <=> db.producers_by_vote # LatestSchedule.producers
                /\ b.new_producers # <<>> =>
                     /\ b.new_producers[1].producers = db.producers_by_vote
                     /\ b.new_producers[1].version = LatestSchedule.version + 1
     /\ (ret'.op = "push_block" /\ RoundStartBlock(ret'.info.block))
          => LET b == ret'.info.block
             IN /\ b.new_producers # <<>> =>
                     /\ b.new_producers[1].producers = db.producers_by_vote
                     /\ b.new_producers[1].version = LatestSchedule.version +
                          (IF db.producers_by_vote # LatestSchedule.producers
                           THEN 1 ELSE 0)
                /\ db.producers_by_vote # LatestSchedule.producers
                     => b.new_producers # <<>>]_vars

\* the block generated at the first start of a round after the votes
\* changed announces the producers in the new order
C33_Witness ==
  /\ Returned /\ ret.op = "generate_block" /\ ret.exc = "none"
  /\ db.head_block_id = ret.info.result[1]
  /\ ret.info.result[1].num = BlocksPerRound
  /\ ret.info.result[1].new_producers # <<>>
  /\ ret.info.result[1].new_producers[1].producers
       # GenesisSchedule.producers

\* the receipts of a shard that have status executed, in listed order
ExecutedOf(shard) == SelectSeq(shard, LAMBDA x : x.status = "executed")

\* all shards of a block summary, as <<region, cycle, shard>> positions
ShardsOf(b) ==
  UNION {UNION {{<<r, c, h>> :
                   h \in 1..Len(b.regions[r].cycles_summary[c])} :
                  c \in 1..Len(b.regions[r].cycles_summary)} :
           r \in 1..Len(b.regions)}

ShardAt(b, q) == b.regions[q[1]].cycles_summary[q[2]][q[3]]

InputIds(b) ==
  {b.input_transactions[i].id : i \in 1..Len(b.input_transactions)}

\* the executed receipts of the block that the transactions of `actor' have
ExecutedFor(b, actor) ==
  UNION {{<<q, k>> : k \in {k \in 1..Len(ExecutedOf(ShardAt(b, q))) :
             \E i \in 1..Len(b.input_transactions) :
               /\ b.input_transactions[i].id = ExecutedOf(ShardAt(b, q))[k].id
               /\ b.input_transactions[i].actor = actor}} : q \in ShardsOf(b)}

Carries(tr, r, c, h) ==
  /\ tr.region_id = r
  /\ tr.cycle_index = c
  /\ "shard_index" \in DOMAIN tr
  /\ tr.shard_index = h

\* C35: every action trace of a transaction carries the region id, the
\* cycle index and the shard index of the shard that holds the
\* transaction's receipt: in the cycle under construction of the pending
\* block after push_transaction, and in the trace of an applied block
C35_TracesCarryPlacement ==
  /\ (Returned /\ pending_block # <<>> /\ pending_cycle_trace # <<>>) =>
       \A h \in 1..Len(pending_cycle_trace[1].shard_traces) :
         \A k \in 1..Len(pending_cycle_trace[1].shard_traces[h]) :
           Carries(pending_cycle_trace[1].shard_traces[h][k],
                   0, Len(PendingCycles) - 1, h - 1)
  /\ (ret.op = "__apply_block" /\ ret.exc = "none") =>
       LET b == ret.info.block
       IN \A q \in ShardsOf(b) :
            \A k \in 1..Len(ret.info.result[1][q[1]][q[2]][q[3]]) :
              Carries(ret.info.result[1][q[1]][q[2]][q[3]][k],
                      b.regions[q[1]].region, q[2] - 1, q[3] - 1)

\* the producer of block b is not the one its slot is scheduled for
Unscheduled(b) ==
  b.producer # SlotOwner(b.previous, b.timestamp - TimeOf(b.previous))

\* C36: with any checkpoint map, a block whose number has a checkpoint is
\* applied only when its id is the checkpointed id, and a block whose number
\* is not above every checkpoint is applied with all checks skipped: a block
\* on the head by a producer that is not scheduled is accepted
C36_CheckpointGate ==
  [][ret'.op = "push_block" =>
       LET b == ret'.info.block
       IN /\ \A x \in ChainOf(db'.head_block_id) \ ChainOf(db.head_block_id) :
               x.num \in DOMAIN _checkpoints => x = _checkpoints[x.num]
          /\ (/\ b.previous = db.head_block_id
              /\ Unscheduled(b)
              /\ \E n \in DOMAIN _checkpoints : n >= b.num
              /\ b.num \in DOMAIN _checkpoints => b = _checkpoints[b.num])
               => (ret'.exc = "none" /\ db'.head_block_id = b)]_vars

\* the links of the store for one (account, scope, action)
LinksFor(a, scope, act) ==
  {l \in db.permission_links :
     l.account = a /\ l.code = scope /\ l.message_type = act}

\* C37: lookup_minimum_permission(authorizer, scope, action) returns the
\* authorizer's permission named by the link of exactly (authorizer, scope,
\* action) when there is one, else the one named by the contract-wide link
\* (authorizer, scope, "") when there is one, else the authorizer's active
\* permission
C37_MostSpecificLinkWins ==
  ret.op = "lookup_minimum_permission" =>
    LET a     == ret.info.result[1]
        exact == LinksFor(a, ret.info.result[2], ret.info.result[3])
        wide  == LinksFor(a, ret.info.result[2], "")
        found == ret.info.result[4]
    IN /\ found \in PermissionObjects
       /\ found.owner = a
       /\ exact # {} => \E l \in exact : found.name = l.required_permission
       /\ (exact = {} /\ wide # {}) =>
            \E l \in wide : found.name = l.required_permission
       /\ (exact = {} /\ wide = {}) => found.name = "active"

\* the link of the action and the contract-wide link name different
\* permissions and the lookup returned the one of the action's link
C37_Witness ==
  /\ ret.op = "lookup_minimum_permission"
  /\ ret.info.result[3] # ""
  /\ \E l \in LinksFor(ret.info.result[1], ret.info.result[2],
                        ret.info.result[3]) :
       \E w \in LinksFor(ret.info.result[1], ret.info.result[2], "") :
         /\ l.required_permission # w.required_permission
         /\ ret.info.result[4].name = l.required_permission

\* the block at height n of the chain that ends in the head block
CanonicalBlock(n) ==
  CHOOSE b \in ChainOf(db.head_block_id) : b.num = n

\* C38: in every state the controller returns to its caller, for every n
\* from 1 to head_block_num() fetch_block_by_number(n) is the block at
\* height n of the chain that ends in the head block, and for every n above
\* head_block_num() it is nothing
C38_FetchByNumberIsCanonical ==
  Returned =>
    \A n \in 1..(MaxOps + 1) :
      fetch_block_by_number(State, n) =
        IF n <= db.head_block_number THEN CanonicalBlock(n) ELSE NullId


====
